---- MODULE Spec2Model ----
(***************************************************************************)
(* A model of the VS Filters tree provider (src/src/extension.ts, the      *)
(* FiltersTreeDataProvider class and the helpers it calls).                *)
(*                                                                         *)
(* Strings are sequences of tokens.  A filter path is spelled character by *)
(* character, so that String.prototype.startsWith is modelled on the       *)
(* characters: "AB" is <<"A","B">> and "A\B" is <<"A","\\","B">>.  A file  *)
(* path is a sequence of chunks and separators, the last chunk being the   *)
(* extension: "d/h.h" is <<"d","/","h",".h">>.                             *)
(*                                                                         *)
(* The sidecar is kept in the form the XML parser returns it: a sequence   *)
(* of item groups, each with its Filter definitions and its file entries.  *)
(* A file entry's Filter is the sequence of its <Filter> children: empty   *)
(* when it has none, one element for a scalar, several for an array.       *)
(***************************************************************************)
EXTENDS Integers, Sequences, FiniteSets, TLC

VARIABLES
  sidecar,       \* the .vcxproj.filters file: [exists, doc]
  disk,          \* the files of the workspace folder other than the sidecar
  tree,          \* the cached tree of the workspace folder (this.trees)
  refreshTimer,  \* TRUE while a debounce timer is pending (this.refreshTimer)
  isDragging,    \* this.isDragging
  dragTimer,     \* TRUE while handleDrag's 1000 ms timeout is pending
  dragData,      \* the payload handleDrag put in the DataTransfer
  maxFiles,      \* the vsFilters.maxFiles setting
  last,          \* the last operation: its arguments, outcome and pre-state
  builtSince,    \* TRUE when buildTree has run since the last operation
  steps,         \* number of operations so far
  clock,         \* the host's time and timers: [now, timers, handle]
  burst,         \* the triggers and timer refreshes seen so far
  second,        \* a second workspace folder: its sidecar and its cached tree
  builds,        \* the buildTree calls in flight and their count since the last refresh
  fileClipboard  \* the file that was cut or copied, for vsFilters.paste

vars == <<sidecar, disk, tree, refreshTimer, isDragging, dragTimer, dragData,
          maxFiles, last, builtSince, steps, clock, burst, second,
          builds, fileClipboard>>

----------------------------------------------------------------------------
(* The bound of the model: the number of commands, drops and disk changes. *)

MaxSteps == 1

(* The vsFilters.maxFiles default.                                         *)
DefaultMaxFiles == 25000

(* The delay of the debounce timer, in units of 100 ms, and the time up to *)
(* which the clock is followed.                                            *)
QuietInterval == 3
MaxTime == 8

(* The number of triggers followed in one burst.                           *)
MaxBurst == 3

(* The number of getChildren calls followed on one root.                   *)
MaxBuilds == 2

----------------------------------------------------------------------------
(* Strings.                                                                *)

Sep == "\\"
Slash == "/"
EmptyString == << >>

\* String.prototype.startsWith
StartsWith(s, p) == Len(p) <= Len(s) /\ SubSeq(s, 1, Len(p)) = p

\* String.prototype.replace with a global one-character pattern
ReplaceAll(s, from, to) == [i \in 1..Len(s) |-> IF s[i] = from THEN to ELSE s[i]]

\* String.prototype.lastIndexOf, 1-based; 0 when the character does not occur
LastIndexOf(s, c) ==
  IF \E i \in 1..Len(s) : s[i] = c
    THEN CHOOSE i \in 1..Len(s) : s[i] = c /\ \A j \in (i+1)..Len(s) : s[j] # c
    ELSE 0

\* String.prototype.substring(n) with n counted in characters dropped
Substring(s, n) == SubSeq(s, n + 1, Len(s))

----------------------------------------------------------------------------
(* The universe the inputs are drawn from.                                 *)

\* Filter names a user types into the createFilter input box
Names == { <<"A">>, <<"B">>, <<"A","B">> }

\* The GUIDs Math.random may produce in generateGuid
Guids == { "g1", "g2" }

\* Files that may exist under the workspace folder (disk form, '/' separated)
FileA == <<"a", ".cpp">>
FileH == <<"d", Slash, "h", ".h">>
FileX == <<"build", Slash, "x", ".cpp">>
FileR == <<"r", ".rc">>
FileT == <<"t", ".txt">>
AllFiles == { FileA, FileH, FileX }

\* First path segments the default excludePatterns exclude ('build/**', ...)
ExcludedDirs == { "node_modules", "bin", "obj", "build", "out", "tmp", ".vs", ".git", "dist" }

----------------------------------------------------------------------------
(* The sidecar document as the parser returns it.                          *)

FilterDef(p, g) == [Include |-> p, UniqueIdentifier |-> g]
FileItem(tag, inc, flt) == [tag |-> tag, Include |-> inc, Filter |-> flt]
Group(defs, items) == [Filter |-> defs, items |-> items]
EmptyGroup == Group(<< >>, << >>)

NoFile == [exists |-> FALSE, doc |-> << >>]
File(doc) == [exists |-> TRUE, doc |-> doc]

\* Object.keys(group).length > 0
HasKeys(g) == g.Filter # << >> \/ g.items # << >>

\* JavaScript truthiness of data.Project.ItemGroup: an empty <ItemGroup>
\* parses to the empty string, which is falsy, like a missing one
HasItemGroup(doc) == doc # << >> /\ ~(Len(doc) = 1 /\ ~HasKeys(doc[1]))

\* Array.isArray(ItemGroup) ? ItemGroup : [ItemGroup], after the falsy test
Groups(doc) == IF HasItemGroup(doc) THEN doc ELSE << >>

\* JavaScript truthiness of item.Filter: undefined and "" are falsy, an array is truthy
Truthy(flt) == flt # << >> /\ ~(Len(flt) = 1 /\ flt[1] = EmptyString)

\* Array.isArray(filter) ? filter[filter.length - 1] : filter
LastFilter(flt) == flt[Len(flt)]

\* All definitions and all file entries of a document, in document order
RECURSIVE Flatten(_)
Flatten(ss) == IF ss = << >> THEN << >> ELSE Head(ss) \o Flatten(Tail(ss))
AllDefs(doc) == Flatten([i \in 1..Len(doc) |-> doc[i].Filter])
AllItems(doc) == Flatten([i \in 1..Len(doc) |-> doc[i].items])
Range(s) == { s[i] : i \in 1..Len(s) }

----------------------------------------------------------------------------
(* Paths and URIs.  A URI is the path relative to the workspace folder.    *)

RootUri == EmptyString

\* vscode.Uri.joinPath(folderUri, filterPath): the fake URI of a filter node
FakeUri(filterPath) == filterPath

\* vscode.Uri.joinPath(folderUri, include.replace(/\\/g, '/'))
FileUri(include) == ReplaceAll(include, Sep, Slash)

\* path.relative(root, fileUri.fsPath).replace(/\//g, '\\')
RelativePath(fileUri) == ReplaceAll(fileUri, Slash, Sep)

\* getFilterPath(folderNode, workspaceUri)
getFilterPath(uri) == IF uri = RootUri THEN EmptyString ELSE ReplaceAll(uri, Slash, Sep)

\* path.extname(filePath).toLowerCase()
ExtName(filePath) ==
  IF Len(filePath) >= 2 THEN filePath[Len(filePath)] ELSE ""

----------------------------------------------------------------------------
(* The filesystem.                                                         *)

\* vscode.workspace.fs.stat(uri) succeeds with type File
IsFile(uri, files) == uri \in files

\* vscode.workspace.fs.stat(uri) succeeds with type Directory
IsDirectory(uri, files) == \E f \in files : StartsWith(f, uri \o <<Slash>>)

\* The exclude glob '{node_modules/**,bin/**,...}' of findFiles
Excluded(uri) == uri # << >> /\ uri[1] \in ExcludedDirs /\ Len(uri) > 1 /\ uri[2] = Slash

----------------------------------------------------------------------------
(* addFilterToXML                                                          *)

\* A variant that forgets the parent path
NewFilterPathNameOnly(parentPath, filterName) == filterName

\* `${parentPath}\\${filterName}`, or filterName under the root
NewFilterPath(parentPath, filterName) ==
  IF parentPath # EmptyString THEN parentPath \o <<Sep>> \o filterName ELSE filterName

\* data.Project.ItemGroup.find(group => group.Filter): index of the first
\* group that declares filters, 0 when there is none
FilterGroupIndex(groups) ==
  IF \E i \in 1..Len(groups) : groups[i].Filter # << >>
    THEN CHOOSE i \in 1..Len(groups) :
           groups[i].Filter # << >> /\ \A j \in 1..(i-1) : groups[j].Filter = << >>
    ELSE 0

\* filterGroup.Filter.find(f => f['@_Include'] === filterPath)
ExistingFilter(filters, filterPath) ==
  \E k \in 1..Len(filters) : filters[k].Include = filterPath

addFilterToXML(doc, filterPath, guid) ==
  LET groups == Groups(doc)
      idx == FilterGroupIndex(groups)
  IN IF idx = 0
       THEN Append(groups, Group(<<FilterDef(filterPath, guid)>>, << >>))
       ELSE IF ExistingFilter(groups[idx].Filter, filterPath)
         THEN groups
         ELSE [groups EXCEPT ![idx].Filter = Append(@, FilterDef(filterPath, guid))]

----------------------------------------------------------------------------
(* removeFilterFromXML                                                     *)

\* The test that selects what deleteFilter removes: path.startsWith(filterPath)
RemovesPath(path, filterPath) == StartsWith(path, filterPath)

\* A variant that removes no file entry
KeepsEveryItem(item, filterPath) == TRUE

\* The predicate of items.filter(...): TRUE when the file entry is kept
KeepsItem(item, filterPath) ==
  IF ~Truthy(item.Filter) THEN TRUE
  ELSE ~RemovesPath(LastFilter(item.Filter), filterPath)

removeFilterFromGroup(g, filterPath) ==
  Group(SelectSeq(g.Filter, LAMBDA f : ~RemovesPath(f.Include, filterPath)),
        SelectSeq(g.items, LAMBDA it : KeepsItem(it, filterPath)))

\* The result: the document and whether it was written back
removeFilterFromXML(doc, filterPath) ==
  IF ~HasItemGroup(doc) THEN [doc |-> doc, wrote |-> FALSE]
  ELSE [doc |-> SelectSeq([i \in 1..Len(doc) |-> removeFilterFromGroup(doc[i], filterPath)],
                          HasKeys),
        wrote |-> TRUE]

----------------------------------------------------------------------------
(* updateFileFilterInXML                                                   *)

\* A variant whose default is the text type
ItemTypeTextDefault(filePath) ==
  LET extension == ExtName(filePath)
  IN IF extension \in {".cpp", ".c", ".cc", ".cxx"} THEN "ClCompile"
     ELSE IF extension \in {".rc", ".rc2"} THEN "ResourceCompile"
     ELSE IF extension \in {".h", ".hpp", ".hh", ".hxx"} THEN "ClInclude"
     ELSE "Text"

\* The entry type chosen for a file that has no entry yet
ItemType(filePath) ==
  LET extension == ExtName(filePath)
  IN IF extension \in {".cpp", ".c", ".cc", ".cxx"} THEN "ClCompile"
     ELSE IF extension \in {".rc", ".rc2"} THEN "ResourceCompile"
     ELSE IF extension \in {".txt", ".md", ".xml", ".json"} THEN "Text"
     ELSE "ClInclude"

\* A variant that assigns the filter even when it is empty
SetFilterAlways(newFilterPath) == <<newFilterPath>>

\* if (newFilterPath) item.Filter = newFilterPath; else delete item.Filter
SetFilter(newFilterPath) ==
  IF newFilterPath # EmptyString THEN <<newFilterPath>> ELSE << >>

UpdateItem(item, filePath, newFilterPath) ==
  IF item.Include = filePath THEN [item EXCEPT !.Filter = SetFilter(newFilterPath)] ELSE item

\* targetGroup[itemType].push(newItem): after the last entry of the same type
InsertItem(items, newItem) ==
  LET same == {k \in 1..Len(items) : items[k].tag = newItem.tag}
  IN IF same = {} THEN Append(items, newItem)
     ELSE LET k == CHOOSE m \in same : \A n \in same : n <= m
          IN SubSeq(items, 1, k) \o <<newItem>> \o SubSeq(items, k + 1, Len(items))

updateFileFilterInXML(doc, filePath, newFilterPath) ==
  LET groups == Groups(doc)
      fileFound == \E i \in 1..Len(groups) : \E k \in 1..Len(groups[i].items) :
                     groups[i].items[k].Include = filePath
      updated == [i \in 1..Len(groups) |->
                    Group(groups[i].Filter,
                          [k \in 1..Len(groups[i].items) |->
                             UpdateItem(groups[i].items[k], filePath, newFilterPath)])]
      itemType == ItemType(filePath)
      hasType(i) == \E k \in 1..Len(groups[i].items) : groups[i].items[k].tag = itemType
      newItem == FileItem(itemType, filePath, SetFilter(newFilterPath))
  IN IF fileFound THEN updated
     ELSE IF \E i \in 1..Len(groups) : hasType(i)
       THEN LET t == CHOOSE i \in 1..Len(groups) : hasType(i) /\ \A j \in 1..(i-1) : ~hasType(j)
            IN [groups EXCEPT ![t].items = InsertItem(@, newItem)]
       ELSE Append(groups, Group(<< >>, <<newItem>>))

----------------------------------------------------------------------------
(* moveFilterInXML                                                         *)

\* A path the move rewrites: exactly oldFilterPath, or under oldFilterPath + '\\'
IsMoved(path, oldFilterPath) ==
  \/ path = oldFilterPath
  \/ path # EmptyString /\ StartsWith(path, oldFilterPath \o <<Sep>>)

\* A variant that rewrites the moved filter but not what is under it
MovedPathExactOnly(path, oldFilterPath, newFilterPath) ==
  IF path = oldFilterPath THEN newFilterPath ELSE path

\* The rewritten path
MovedPath(path, oldFilterPath, newFilterPath) ==
  IF path = oldFilterPath THEN newFilterPath
  ELSE IF path # EmptyString /\ StartsWith(path, oldFilterPath \o <<Sep>>)
    THEN newFilterPath \o <<Sep>> \o Substring(path, Len(oldFilterPath) + 1)
    ELSE path

MoveItem(item, oldFilterPath, newFilterPath) ==
  IF Truthy(item.Filter) /\ IsMoved(LastFilter(item.Filter), oldFilterPath)
    THEN [item EXCEPT !.Filter = <<MovedPath(LastFilter(item.Filter), oldFilterPath, newFilterPath)>>]
    ELSE item

moveFilterInGroup(g, oldFilterPath, newFilterPath) ==
  Group([k \in 1..Len(g.Filter) |->
           [g.Filter[k] EXCEPT !.Include = MovedPath(@, oldFilterPath, newFilterPath)]],
        [k \in 1..Len(g.items) |-> MoveItem(g.items[k], oldFilterPath, newFilterPath)])

moveFilterInXML(doc, oldFilterPath, newFilterPath) ==
  IF ~HasItemGroup(doc) THEN [doc |-> doc, wrote |-> FALSE]
  ELSE [doc |-> [i \in 1..Len(doc) |-> moveFilterInGroup(doc[i], oldFilterPath, newFilterPath)],
        wrote |-> TRUE]

----------------------------------------------------------------------------
(* cleanupStaleFileReferences and createNewFiltersFile                     *)

\* A variant that keeps every entry
IsValidAlways(item, files) == TRUE

\* An entry the cleanup keeps: no Include attribute, or its file exists
IsValidItem(item, files) ==
  item.Include = EmptyString \/ IsFile(FileUri(item.Include), files)

\* A variant that writes the document back whether or not an entry was dropped
cleanupAlwaysWrites(doc, files) ==
  LET cleaned == [i \in 1..Len(doc) |->
                    Group(doc[i].Filter,
                          SelectSeq(doc[i].items, LAMBDA it : IsValidItem(it, files)))]
  IN IF ~HasItemGroup(doc) THEN [doc |-> doc, wrote |-> FALSE]
     ELSE [doc |-> SelectSeq(cleaned, HasKeys), wrote |-> TRUE]

cleanupStaleFileReferences(doc, files) ==
  LET hasChanges == \E i \in 1..Len(doc) : \E k \in 1..Len(doc[i].items) :
                      ~IsValidItem(doc[i].items[k], files)
      cleaned == [i \in 1..Len(doc) |->
                    Group(doc[i].Filter,
                          SelectSeq(doc[i].items, LAMBDA it : IsValidItem(it, files)))]
  IN IF ~HasItemGroup(doc) \/ ~hasChanges THEN [doc |-> doc, wrote |-> FALSE]
     ELSE [doc |-> SelectSeq(cleaned, HasKeys), wrote |-> TRUE]

\* The skeleton: a Project with one empty ItemGroup
createNewFiltersFile == File(<<EmptyGroup>>)

----------------------------------------------------------------------------
(* renameFileInFilters and deleteFileFromFilters                           *)

\* A variant that also derives the entry's type again from the new name
RenameItemRetyped(item, oldRelativePath, newRelativePath) ==
  IF item.Include = oldRelativePath
    THEN [item EXCEPT !.Include = newRelativePath, !.tag = ItemType(newRelativePath)]
    ELSE item

\* if (item['@_Include'] === oldRelativePath) item['@_Include'] = newRelativePath
RenameItem(item, oldRelativePath, newRelativePath) ==
  IF item.Include = oldRelativePath THEN [item EXCEPT !.Include = newRelativePath] ELSE item

\* The result: the document and whether it was written back (hasChanges)
renameFileInFilters(doc, oldRelativePath, newRelativePath) ==
  LET hasChanges == \E it \in Range(AllItems(doc)) : it.Include = oldRelativePath
  IN IF ~HasItemGroup(doc) \/ ~hasChanges THEN [doc |-> doc, wrote |-> FALSE]
     ELSE [doc |-> [i \in 1..Len(doc) |->
                      Group(doc[i].Filter,
                            [k \in 1..Len(doc[i].items) |->
                               RenameItem(doc[i].items[k], oldRelativePath, newRelativePath)])],
           wrote |-> TRUE]

\* A variant that drops every entry
KeepsNoFile(item, relativePath) == FALSE

\* items.filter(item => item['@_Include'] !== relativePath)
KeepsFile(item, relativePath) == item.Include # relativePath

\* A variant that only takes the filter reference off the matching entries
deleteFilterReferenceOnly(doc, relativePath) ==
  LET hasChanges == \E it \in Range(AllItems(doc)) : ~KeepsFile(it, relativePath)
  IN IF ~HasItemGroup(doc) \/ ~hasChanges THEN [doc |-> doc, wrote |-> FALSE]
     ELSE [doc |-> [i \in 1..Len(doc) |->
                      Group(doc[i].Filter,
                            [k \in 1..Len(doc[i].items) |->
                               IF KeepsFile(doc[i].items[k], relativePath) THEN doc[i].items[k]
                               ELSE [doc[i].items[k] EXCEPT !.Filter = << >>]])],
           wrote |-> TRUE]

deleteFileFromFilters(doc, relativePath) ==
  LET hasChanges == \E it \in Range(AllItems(doc)) : ~KeepsFile(it, relativePath)
      cleaned == [i \in 1..Len(doc) |->
                    Group(doc[i].Filter,
                          SelectSeq(doc[i].items, LAMBDA it : KeepsFile(it, relativePath)))]
  IN IF ~HasItemGroup(doc) \/ ~hasChanges THEN [doc |-> doc, wrote |-> FALSE]
     ELSE [doc |-> SelectSeq(cleaned, HasKeys), wrote |-> TRUE]

----------------------------------------------------------------------------
(* buildTree                                                               *)

\* The sidecar file itself, created as <projectName>.vcxproj.filters in the root
SidecarUri == <<"p", ".vcxproj", ".filters">>

\* Everything on disk under the workspace folder
OnDisk(sc, files) == files \cup (IF sc.exists THEN {SidecarUri} ELSE {})

\* The entries buildTree collects: those with an Include and a truthy Filter
TreeItems(doc) ==
  SelectSeq(AllItems(Groups(doc)), LAMBDA it : it.Include # EmptyString /\ Truthy(it.Filter))

\* filterPath.substring(0, filterPath.lastIndexOf('\\')), '' without a backslash
ParentFilter(filterPath) ==
  LET idx == LastIndexOf(filterPath, Sep)
  IN IF idx = 0 THEN EmptyString ELSE SubSeq(filterPath, 1, idx - 1)

\* filterPath.substring(idx + 1), the whole path without a backslash
LeafName(filterPath) == Substring(filterPath, LastIndexOf(filterPath, Sep))

\* path.basename(uri.fsPath)
BaseName(uri) == Substring(uri, LastIndexOf(uri, Slash))

\* new FolderNode(fakeUri, leafName), pushed to the children of its parent
FolderNode(filterPath) ==
  [folder |-> TRUE, parent |-> ParentFilter(filterPath), path |-> filterPath,
   label |-> LeafName(filterPath)]

\* new FileNode(fileUri), pushed to the children of the node of `parent`
FileNode(parent, fileUri) ==
  [folder |-> FALSE, parent |-> parent, path |-> fileUri, label |-> BaseName(fileUri)]

\* A variant whose map only ever holds the root
HasNodeRootOnly(created, filterPath) == filterPath = EmptyString

\* nodeMap.has(filterPath); the root is in the map from the start
HasNode(created, filterPath) ==
  \/ filterPath = EmptyString
  \/ \E k \in 1..Len(created) : created[k].folder /\ created[k].path = filterPath

\* ensureNode(filterPath): the nodes created so far, with the node of the path
\* and of its missing ancestors added, parents first
RECURSIVE ensureNode(_, _)
ensureNode(created, filterPath) ==
  IF HasNode(created, filterPath) THEN created
  ELSE Append(ensureNode(created, ParentFilter(filterPath)), FolderNode(filterPath))

\* The loop over the filter definitions: ensureNode for each non-empty path
RECURSIVE AddDefs(_, _)
AddDefs(created, defs) ==
  IF defs = << >> THEN created
  ELSE AddDefs(IF Head(defs).Include # EmptyString
                 THEN ensureNode(created, Head(defs).Include) ELSE created,
               Tail(defs))

\* The loop over the collected entries: ensureNode(filter), then a FileNode
\* when the stat of the file succeeds with type File
RECURSIVE AddFiles(_, _, _)
AddFiles(created, items, files) ==
  IF items = << >> THEN created
  ELSE LET filter == LastFilter(Head(items).Filter)
           fileUri == FileUri(Head(items).Include)
           withNode == ensureNode(created, filter)
       IN AddFiles(IF IsFile(fileUri, files)
                     THEN Append(withNode, FileNode(filter, fileUri)) ELSE withNode,
                   Tail(items), files)

\* filteredFiles: the stat of the file succeeded (the catch block skips the add)
FilteredFiles(doc, files) ==
  { FileUri(it.Include) : it \in { x \in Range(TreeItems(doc)) :
        IsFile(FileUri(x.Include), files) \/ IsDirectory(FileUri(x.Include), files) } }

\* A variant that ignores the limit
FindFilesUnlimited(all, limit) == { { u \in all : ~Excluded(u) } }

\* The results vscode.workspace.findFiles('**/*', exclude, maxFiles) may return
FindFiles(all, limit) ==
  LET candidates == { u \in all : ~Excluded(u) }
      n == IF Cardinality(candidates) < limit THEN Cardinality(candidates) ELSE limit
  IN IF n = Cardinality(candidates) THEN { candidates }
     ELSE { S \in SUBSET candidates : Cardinality(S) = n }

\* addUnfilteredFilesToRoot: the enumerated files that become root children
UnfilteredFiles(found, filtered, all) ==
  { u \in found : u \notin filtered /\ IsFile(u, all) }

\* The order in which findFiles returns the files; their final order is the
\* one sortChildren gives them
RECURSIVE SetToSeq(_)
SetToSeq(S) ==
  IF S = {} THEN << >>
  ELSE LET x == CHOOSE y \in S : TRUE IN <<x>> \o SetToSeq(S \ {x})

addUnfilteredFilesToRoot(created, unfiltered) ==
  LET order == SetToSeq(unfiltered)
  IN created \o [k \in 1..Len(order) |-> FileNode(EmptyString, order[k])]

\* The collation order of the tokens display names are made of
Alphabet ==
  << ".cpp", ".filters", ".h", ".rc", ".txt", ".vcxproj",
     "a", "A", "b", "B", "build", "d", "h", "p", "r", "t", "x" >>

Rank(token) ==
  IF \E k \in 1..Len(Alphabet) : Alphabet[k] = token
    THEN CHOOSE k \in 1..Len(Alphabet) : Alphabet[k] = token
    ELSE 0

\* aLabel.localeCompare(bLabel) < 0
RECURSIVE localeCompareBefore(_, _)
localeCompareBefore(aLabel, bLabel) ==
  IF bLabel = << >> THEN FALSE
  ELSE IF aLabel = << >> THEN TRUE
  ELSE IF Rank(Head(aLabel)) # Rank(Head(bLabel)) THEN Rank(Head(aLabel)) < Rank(Head(bLabel))
  ELSE localeCompareBefore(Tail(aLabel), Tail(bLabel))

\* A variant that compares the labels only
ComesBeforeByLabel(a, b) == localeCompareBefore(a.label, b.label)

\* The comparator of sortChildren returning a negative number
ComesBefore(a, b) ==
  \/ a.folder /\ ~b.folder
  \/ a.folder = b.folder /\ localeCompareBefore(a.label, b.label)

\* One step of the stable sort: x goes before the first node it comes before
InsertSorted(sorted, x) ==
  LET later == { k \in 1..Len(sorted) : ComesBefore(x, sorted[k]) }
      at == IF later = {} THEN Len(sorted) + 1
            ELSE CHOOSE k \in later : \A m \in later : k <= m
  IN SubSeq(sorted, 1, at - 1) \o <<x>> \o SubSeq(sorted, at, Len(sorted))

\* children.sort(comparator): Array.prototype.sort is stable
RECURSIVE sortChildren(_)
sortChildren(children) ==
  IF children = << >> THEN << >>
  ELSE InsertSorted(sortChildren(SubSeq(children, 1, Len(children) - 1)),
                    children[Len(children)])

\* The children of the node of a path, in the order they are kept
ChildrenOf(nodes, parent) == SelectSeq(nodes, LAMBDA n : n.parent = parent)

\* sortNodeRecursively(root): the children of the root and of every folder
\* node, each sequence sorted
sortNodeRecursively(created) ==
  LET folders == SelectSeq(created, LAMBDA n : n.folder)
      parents == <<EmptyString>> \o [k \in 1..Len(folders) |-> folders[k].path]
  IN Flatten([k \in 1..Len(parents) |-> sortChildren(ChildrenOf(created, parents[k]))])

EmptyTree == [populated |-> FALSE, children |-> << >>]

\* A variant that scans the workspace folder even when it has no sidecar
buildTreeAlwaysScans(sc, files, found) ==
  LET doc == IF sc.exists THEN sc.doc ELSE << >>
      all == OnDisk(sc, files)
      withDefs == AddDefs(<< >>, AllDefs(Groups(doc)))
      withFiles == AddFiles(withDefs, TreeItems(doc), all)
      unfiltered == UnfilteredFiles(found, FilteredFiles(doc, all), all)
  IN [populated |-> TRUE,
      children |-> sortNodeRecursively(addUnfilteredFilesToRoot(withFiles, unfiltered))]

\* The tree buildTree returns: the nodes below the root, each with its parent
buildTree(sc, files, found) ==
  IF ~sc.exists THEN [populated |-> TRUE, children |-> << >>]
  ELSE LET doc == sc.doc
           all == OnDisk(sc, files)
           withDefs == AddDefs(<< >>, AllDefs(Groups(doc)))
           withFiles == AddFiles(withDefs, TreeItems(doc), all)
           unfiltered == UnfilteredFiles(found, FilteredFiles(doc, all), all)
       IN [populated |-> TRUE,
           children |-> sortNodeRecursively(addUnfilteredFilesToRoot(withFiles, unfiltered))]

\* The filter paths and the FileNodes of a tree
TreeFolders(t) == { n.path : n \in { m \in Range(t.children) : m.folder } }
TreeFileNodes(t) == { k \in 1..Len(t.children) : ~t.children[k].folder }

\* The nodes of the cached tree a command or a drag can be given
FolderTargets == {RootUri} \cup { FakeUri(p) : p \in TreeFolders(tree) }
FileTargets == { tree.children[k].path : k \in TreeFileNodes(tree) }

----------------------------------------------------------------------------
(* The mutation operations, as functions of the sidecar they find.  Each   *)
(* yields the sidecar it leaves, its outcome ("ok", "rejected" when an     *)
(* error message is shown, "failed" when it throws to its caller,          *)
(* "cancelled"), whether it wrote the sidecar and whether it created it.   *)

Result(sc, outcome, wrote, created) ==
  [sidecar |-> sc, outcome |-> outcome, wrote |-> wrote, created |-> created]

\* A variant that never creates the sidecar
EnsureNothing(sc) == sc

\* if (!filtersPath) { ...; await this.createNewFiltersFile(filtersPath); }
EnsureFiltersFile(sc) == IF sc.exists THEN sc ELSE createNewFiltersFile

createFilterResult(sc, parentUri, filterName, guid) ==
  LET ensured == EnsureFiltersFile(sc)
      parentPath == getFilterPath(parentUri)
      newFilterPath == NewFilterPath(parentPath, filterName)
  IN IF ~ensured.exists THEN Result(sc, "rejected", FALSE, FALSE)   \* readFile throws
     ELSE Result(File(addFilterToXML(ensured.doc, newFilterPath, guid)), "ok", TRUE, ~sc.exists)

\* A variant without the root check
NeverRootPath(filterPath) == FALSE

\* if (!filterPath) throw new Error('Cannot delete root folder')
IsRootPath(filterPath) == filterPath = EmptyString

deleteFilterResult(sc, folderUri, confirmed) ==
  LET filterPath == getFilterPath(folderUri)
  IN IF ~sc.exists THEN Result(sc, "rejected", FALSE, FALSE)
     ELSE IF IsRootPath(filterPath) THEN Result(sc, "rejected", FALSE, FALSE)
     ELSE IF ~confirmed THEN Result(sc, "cancelled", FALSE, FALSE)
     ELSE LET r == removeFilterFromXML(sc.doc, filterPath)
          IN Result(File(r.doc), "ok", r.wrote, FALSE)

moveFileToFilterResult(sc, fileUri, targetUri) ==
  LET ensured == EnsureFiltersFile(sc)
      targetFilterPath == getFilterPath(targetUri)
      relativePath == RelativePath(fileUri)
  IN IF ~ensured.exists THEN Result(sc, "failed", FALSE, FALSE)     \* readFile throws
     ELSE Result(File(updateFileFilterInXML(ensured.doc, relativePath, targetFilterPath)),
                 "ok", TRUE, ~sc.exists)

\* A variant with the two paths swapped
IsIntoItselfSwapped(targetParentPath, sourceFilterPath) ==
  StartsWith(sourceFilterPath, targetParentPath)

\* if (targetParentPath.startsWith(sourceFilterPath)): the move is refused
IsIntoItself(targetParentPath, sourceFilterPath) ==
  StartsWith(targetParentPath, sourceFilterPath)

\* sourceFilterPath.split('\\').pop() || sourceFilterPath
FilterName(sourceFilterPath) ==
  LET leaf == Substring(sourceFilterPath, LastIndexOf(sourceFilterPath, Sep))
  IN IF leaf # EmptyString THEN leaf ELSE sourceFilterPath

moveFilterToParentResult(sc, sourceUri, targetUri) ==
  LET sourceFilterPath == getFilterPath(sourceUri)
      targetParentPath == getFilterPath(targetUri)
      newFilterPath == NewFilterPath(targetParentPath, FilterName(sourceFilterPath))
  IN IF ~sc.exists THEN Result(sc, "failed", FALSE, FALSE)
     ELSE IF IsIntoItself(targetParentPath, sourceFilterPath) THEN Result(sc, "rejected", FALSE, FALSE)
     ELSE IF sourceFilterPath = EmptyString THEN Result(sc, "rejected", FALSE, FALSE)
     ELSE LET r == moveFilterInXML(sc.doc, sourceFilterPath, newFilterPath)
          IN Result(File(r.doc), "ok", r.wrote, FALSE)

\* path.join(path.dirname(uri.fsPath), newName)
Sibling(uri, newName) == SubSeq(uri, 1, LastIndexOf(uri, Slash)) \o newName

\* vscode.workspace.fs.rename(uri, newUri) then renameFileInFilters(uri, newUri):
\* the sidecar and the disk they leave
renameFileResult(sc, files, uri, newUri) ==
  IF ~IsFile(uri, OnDisk(sc, files)) \/ IsFile(newUri, OnDisk(sc, files))
       \/ IsDirectory(newUri, files)
    THEN [sidecar |-> sc, disk |-> files, outcome |-> "rejected", wrote |-> FALSE]
  ELSE IF uri = SidecarUri
    THEN [sidecar |-> NoFile, disk |-> files \cup {newUri}, outcome |-> "ok", wrote |-> FALSE]
  ELSE LET r == IF sc.exists
                  THEN renameFileInFilters(sc.doc, RelativePath(uri), RelativePath(newUri))
                  ELSE [doc |-> sc.doc, wrote |-> FALSE]
       IN [sidecar |-> [sc EXCEPT !.doc = r.doc], disk |-> (files \ {uri}) \cup {newUri},
           outcome |-> "ok", wrote |-> r.wrote]

\* vscode.workspace.fs.delete(uri) then deleteFileFromFilters(uri)
deleteFileResult(sc, files, uri, confirmed) ==
  IF ~confirmed THEN [sidecar |-> sc, disk |-> files, outcome |-> "cancelled", wrote |-> FALSE]
  ELSE IF ~IsFile(uri, OnDisk(sc, files))
    THEN [sidecar |-> sc, disk |-> files, outcome |-> "rejected", wrote |-> FALSE]
  ELSE IF uri = SidecarUri
    THEN [sidecar |-> NoFile, disk |-> files, outcome |-> "ok", wrote |-> FALSE]
  ELSE LET r == IF sc.exists THEN deleteFileFromFilters(sc.doc, RelativePath(uri))
                ELSE [doc |-> sc.doc, wrote |-> FALSE]
       IN [sidecar |-> [sc EXCEPT !.doc = r.doc], disk |-> files \ {uri},
           outcome |-> "ok", wrote |-> r.wrote]

----------------------------------------------------------------------------
(* The state machine.                                                      *)

NoDrag == [type |-> "none", uri |-> EmptyString]

Op(op, type, src, arg, onFolder, pre, r) ==
  [op |-> op, type |-> type, src |-> src, arg |-> arg, onFolder |-> onFolder,
   pre |-> pre, disk |-> disk, outcome |-> r.outcome, wrote |-> r.wrote,
   created |-> IF "created" \in DOMAIN r THEN r.created ELSE FALSE]

NoOp ==
  [op |-> "none", type |-> "none", src |-> EmptyString, arg |-> EmptyString,
   onFolder |-> FALSE, pre |-> NoFile, disk |-> {}, outcome |-> "none", wrote |-> FALSE,
   created |-> FALSE]

\* Sidecars the extension may find when it starts
DocPlain ==
  << Group(<< FilterDef(<<"A">>, "i1"), FilterDef(<<"A", Sep, "B">>, "i2"),
              FilterDef(<<"A", "B">>, "i3") >>, << >>),
     Group(<< >>, << FileItem("ClCompile", <<"a", ".cpp">>, << <<"A", Sep, "B">> >>),
                     FileItem("ClCompile", <<"build", Sep, "x", ".cpp">>, << <<"A">> >>),
                     FileItem("ClInclude", <<"d", Sep, "h", ".h">>, << <<"A", "B">> >>) >>) >>

DocSplit ==
  << Group(<< FilterDef(<<"A">>, "i1") >>,
           << FileItem("ClCompile", <<"a", ".cpp">>, << <<"B">>, <<"A">> >>) >>),
     Group(<< FilterDef(<<"B">>, "i2"), FilterDef(<<"A", Sep, "B">>, "i3") >>,
           << FileItem("ClInclude", <<"d", Sep, "h", ".h">>, << >>) >>) >>

\* The sidecar and the vsFilters.maxFiles setting the extension starts with
InitSettings ==
  { <<NoFile, DefaultMaxFiles>>, <<createNewFiltersFile, DefaultMaxFiles>>,
    <<File(DocPlain), DefaultMaxFiles>>, <<File(DocPlain), 2>>,
    <<File(DocSplit), DefaultMaxFiles>> }

\* The clock at the start: no timer is armed, this.refreshTimer is undefined
\* (handle 0; a timer is identified by the time it is due)
NoTime == -1
ClockZero == [now |-> 0, timers |-> {}, handle |-> 0]
NoBurst == [lastTrigger |-> NoTime, refreshes |-> 0, refreshedAt |-> NoTime,
            lastAccepted |-> NoTime, accTriggers |-> 0, accRefreshes |-> 0,
            lastEvent |-> NoTime]

\* let fileClipboard = null
NoClipboard == [full |-> FALSE, uri |-> EmptyString, isCut |-> FALSE]

\* No buildTree call is in flight
NoBuilds == [inFlight |-> << >>, total |-> 0, started |-> 0, wrote |-> 0,
             lastRead |-> NoFile]

\* A workspace with one folder has no second sidecar and no second tree
NoSecond == [sidecar |-> NoFile, tree |-> EmptyTree]

Init ==
  /\ clock = ClockZero
  /\ burst = NoBurst
  /\ second = NoSecond
  /\ builds = NoBuilds
  /\ fileClipboard = NoClipboard
  /\ \E s \in InitSettings : sidecar = s[1] /\ maxFiles = s[2]
  /\ disk = AllFiles
  /\ tree = EmptyTree
  /\ refreshTimer = FALSE
  /\ isDragging = FALSE
  /\ dragTimer = FALSE
  /\ dragData = NoDrag
  /\ last = NoOp
  /\ builtSince = FALSE
  /\ steps = 0

\* debouncedRefresh(): the timer is (re)started unless a drag is in flight
debouncedRefresh == IF isDragging THEN refreshTimer ELSE TRUE

\* A variant that empties the children of the cached root but leaves it populated
refreshChildrenOnly == [tree EXCEPT !.children = << >>]

\* A variant that leaves the cache as it is
refreshKeepsTrees == tree

\* refresh(): this.trees.clear()
refresh == EmptyTree

\* vsFilters.createFilter: the input box, then createFilter(parentFolder, filterName)
createFilter ==
  /\ steps < MaxSteps
  /\ dragData = NoDrag
  /\ \E parentFolder \in FolderTargets, filterName \in Names, guid \in Guids :
       LET r == createFilterResult(sidecar, parentFolder, filterName, guid)
       IN /\ sidecar' = r.sidecar
          /\ last' = Op("createFilter", "folder", parentFolder, filterName, TRUE, sidecar, r)
          /\ refreshTimer' = IF r.outcome = "ok" THEN debouncedRefresh ELSE refreshTimer
  /\ builtSince' = FALSE
  /\ steps' = steps + 1
  /\ UNCHANGED <<fileClipboard, builds, second, clock, burst, disk, tree, isDragging, dragTimer, dragData, maxFiles>>

\* vsFilters.deleteFilter: deleteFilter(folderNode), with the warning dialog's answer
deleteFilter ==
  /\ steps < MaxSteps
  /\ dragData = NoDrag
  /\ \E folderNode \in FolderTargets, confirmed \in BOOLEAN :
       LET r == deleteFilterResult(sidecar, folderNode, confirmed)
       IN /\ sidecar' = r.sidecar
          /\ last' = Op("deleteFilter", "folder", folderNode, EmptyString, TRUE, sidecar, r)
          /\ refreshTimer' = IF r.outcome = "ok" THEN debouncedRefresh ELSE refreshTimer
  /\ builtSince' = FALSE
  /\ steps' = steps + 1
  /\ UNCHANGED <<fileClipboard, builds, second, clock, burst, disk, tree, isDragging, dragTimer, dragData, maxFiles>>

\* handleDrag(source, dataTransfer); canSelectMany is false, so one item is dragged.
\* The commands above need the pointer, so they do not run during a drag gesture.
handleDrag ==
  /\ steps < MaxSteps
  /\ dragData = NoDrag
  /\ \/ \E uri \in FolderTargets : dragData' = [type |-> "folder", uri |-> uri]
     \/ \E uri \in FileTargets : dragData' = [type |-> "file", uri |-> uri]
  /\ isDragging' = TRUE
  /\ dragTimer' = TRUE
  /\ UNCHANGED <<fileClipboard, builds, second, clock, burst, sidecar, disk, tree, refreshTimer, maxFiles, last, builtSince, steps>>

\* The setTimeout callback of handleDrag
dragTimeout ==
  /\ dragTimer
  /\ isDragging' = FALSE
  /\ dragTimer' = FALSE
  /\ UNCHANGED <<fileClipboard, builds, second, clock, burst, sidecar, disk, tree, refreshTimer, dragData, maxFiles, last, builtSince, steps>>

\* handleDrop(target, dataTransfer) on a FolderNode with something dragged; a
\* write of the sidecar makes the filters watcher call debouncedRefresh
handleDrop ==
  /\ steps < MaxSteps
  /\ dragData.type # "none"
  /\ \E target \in FolderTargets :
       LET r == IF dragData.type = "file"
                  THEN moveFileToFilterResult(sidecar, dragData.uri, target)
                  ELSE moveFilterToParentResult(sidecar, dragData.uri, target)
       IN /\ sidecar' = r.sidecar
          /\ last' = Op("drop", dragData.type, dragData.uri, target, TRUE, sidecar, r)
          /\ tree' = IF r.outcome = "failed" THEN tree ELSE refresh
          /\ refreshTimer' = IF r.wrote THEN TRUE ELSE refreshTimer
  /\ isDragging' = FALSE
  /\ dragData' = NoDrag
  /\ builtSince' = FALSE
  /\ steps' = steps + 1
  /\ UNCHANGED <<fileClipboard, builds, second, clock, burst, disk, dragTimer, maxFiles>>

\* The gesture ends without a drop (Escape, or a drop outside the view)
dragCancelled ==
  /\ dragData # NoDrag
  /\ dragData' = NoDrag
  /\ UNCHANGED <<fileClipboard, builds, second, clock, burst, sidecar, disk, tree, refreshTimer, isDragging, dragTimer, maxFiles, last,
                 builtSince, steps>>

\* handleDrop with no payload, or on something that is not a FolderNode
handleDropIgnored ==
  /\ steps < MaxSteps
  /\ \E target \in {EmptyString} :
       last' = Op("drop", dragData.type, dragData.uri, target, FALSE, sidecar,
                  Result(sidecar, "ignored", FALSE, FALSE))
  /\ isDragging' = FALSE
  /\ dragData' = NoDrag
  /\ builtSince' = FALSE
  /\ steps' = steps + 1
  /\ UNCHANGED <<fileClipboard, builds, second, clock, burst, sidecar, disk, tree, refreshTimer, dragTimer, maxFiles>>

\* The debounce timer's callback
timerFires ==
  /\ refreshTimer
  /\ tree' = refresh
  /\ refreshTimer' = FALSE
  /\ UNCHANGED <<fileClipboard, builds, second, clock, burst, sidecar, disk, isDragging, dragTimer, dragData, maxFiles, last, builtSince, steps>>

\* The vsFilters.refresh command
refreshCommand ==
  /\ tree.populated
  /\ dragData = NoDrag
  /\ tree' = refresh
  /\ UNCHANGED <<fileClipboard, builds, second, clock, burst, sidecar, disk, refreshTimer, isDragging, dragTimer, dragData, maxFiles, last,
                 builtSince, steps>>

\* getChildren(root) on the unpopulated root: buildTree, with its cleanup write,
\* which makes the filters watcher call debouncedRefresh
getChildren ==
  /\ ~tree.populated
  /\ \E found \in FindFiles(OnDisk(sidecar, disk), maxFiles) :
       tree' = buildTree(sidecar, disk, found)
  /\ LET r == IF sidecar.exists
                THEN cleanupStaleFileReferences(sidecar.doc, OnDisk(sidecar, disk))
                ELSE [doc |-> sidecar.doc, wrote |-> FALSE]
     IN /\ sidecar' = [sidecar EXCEPT !.doc = r.doc]
        /\ refreshTimer' = IF r.wrote THEN debouncedRefresh ELSE refreshTimer
  /\ builtSince' = TRUE
  /\ UNCHANGED <<fileClipboard, builds, second, clock, burst, disk, isDragging, dragTimer, dragData, maxFiles, last, steps>>

\* The shouldExcludeFile test of the source-file watcher
shouldExcludeFile(uri) == \E i \in 1..Len(uri) : uri[i] \in ExcludedDirs

\* Names a user types into the rename input box
NewNames == { <<"b", ".cpp">> }

\* The watchers' reaction to a command that changed the disk or the sidecar:
\* debouncedRefresh unless every changed path is excluded
WatchersReact(paths, wrote) ==
  IF wrote \/ \E u \in paths : ~shouldExcludeFile(u) THEN debouncedRefresh ELSE refreshTimer

\* vsFilters.renameFile on a file node, with the name typed into the input box
renameFile ==
  /\ steps < MaxSteps
  /\ dragData = NoDrag
  /\ \E uri \in FileTargets, newName \in NewNames :
       LET newUri == Sibling(uri, newName)
           r == renameFileResult(sidecar, disk, uri, newUri)
       IN /\ newName # BaseName(uri)
          /\ sidecar' = r.sidecar
          /\ disk' = r.disk
          /\ last' = Op("renameFile", "file", uri, newUri, FALSE, sidecar, r)
          /\ tree' = IF r.outcome = "ok" THEN refresh ELSE tree
          /\ refreshTimer' = IF r.outcome = "ok"
                               THEN WatchersReact({uri, newUri}, r.wrote \/ uri = SidecarUri)
                               ELSE refreshTimer
  /\ builtSince' = FALSE
  /\ steps' = steps + 1
  /\ UNCHANGED <<fileClipboard, builds, second, clock, burst, isDragging, dragTimer, dragData, maxFiles>>

\* vsFilters.deleteFile on a file node, with the warning dialog's answer
deleteFile ==
  /\ steps < MaxSteps
  /\ dragData = NoDrag
  /\ \E uri \in FileTargets, confirmed \in BOOLEAN :
       LET r == deleteFileResult(sidecar, disk, uri, confirmed)
       IN /\ sidecar' = r.sidecar
          /\ disk' = r.disk
          /\ last' = Op("deleteFile", "file", uri, EmptyString, FALSE, sidecar, r)
          /\ tree' = IF r.outcome = "ok" THEN refresh ELSE tree
          /\ refreshTimer' = IF r.outcome = "ok"
                               THEN WatchersReact({uri}, r.wrote \/ uri = SidecarUri)
                               ELSE refreshTimer
  /\ builtSince' = FALSE
  /\ steps' = steps + 1
  /\ UNCHANGED <<fileClipboard, builds, second, clock, burst, isDragging, dragTimer, dragData, maxFiles>>

\* A file is created or deleted in the workspace folder; the watcher reacts
diskChange ==
  /\ steps < MaxSteps
  /\ \E f \in AllFiles :
       /\ disk' = IF f \in disk THEN disk \ {f} ELSE disk \cup {f}
       /\ last' = Op("disk", "file", f, EmptyString, FALSE, sidecar,
                     Result(sidecar, "ok", FALSE, FALSE))
       /\ refreshTimer' = IF shouldExcludeFile(f) THEN refreshTimer ELSE debouncedRefresh
  /\ builtSince' = FALSE
  /\ steps' = steps + 1
  /\ UNCHANGED <<fileClipboard, builds, second, clock, burst, sidecar, tree, isDragging, dragTimer, dragData, maxFiles>>

\* The sidecar is deleted from outside; the filters watcher reacts
sidecarDeleted ==
  /\ steps < MaxSteps
  /\ sidecar.exists
  /\ sidecar' = NoFile
  /\ last' = Op("sidecarDeleted", "none", EmptyString, EmptyString, FALSE, sidecar,
                Result(NoFile, "ok", FALSE, FALSE))
  /\ refreshTimer' = debouncedRefresh
  /\ builtSince' = FALSE
  /\ UNCHANGED <<fileClipboard, builds, second, clock, burst, disk, tree, isDragging, dragTimer, dragData, maxFiles, steps>>

Next ==
  \/ createFilter
  \/ deleteFilter
  \/ handleDrag
  \/ dragTimeout
  \/ handleDrop
  \/ dragCancelled
  \/ handleDropIgnored
  \/ timerFires
  \/ refreshCommand
  \/ getChildren
  \/ renameFile
  \/ deleteFile
  \/ diskChange
  \/ sidecarDeleted

Spec == Init /\ [][Next]_vars

\* The host runs the callback of a pending debounce timer
FairSpec == Spec /\ WF_vars(timerFires)

----------------------------------------------------------------------------
(* Builds and drops over a wider range of workspaces: more files on disk,  *)
(* sidecars with undefined ancestors, with entries listed twice and with   *)
(* entries whose path is a directory or is missing.                        *)

WorkspaceFiles == AllFiles \cup { FileR, FileT }

\* Only "B\A\B" is defined; d\h.h refers to the undefined filter "A\B"
DocDeep ==
  << Group(<< FilterDef(<<"B", Sep, "A", Sep, "B">>, "i1") >>,
           << FileItem("ClInclude", <<"d", Sep, "h", ".h">>, << <<"A", Sep, "B">> >>) >>) >>

\* a.cpp is listed twice, as left by a merge of two versions of the sidecar
DocTwice ==
  << Group(<< FilterDef(<<"A">>, "i1") >>,
           << FileItem("ClCompile", <<"a", ".cpp">>, << <<"A">> >>),
              FileItem("ClInclude", <<"a", ".cpp">>, << <<"A">> >>) >>) >>

\* An entry whose path is the directory d, and t.txt in filter A
DocDir ==
  << Group(<< FilterDef(<<"A">>, "i1"), FilterDef(<<"B">>, "i2") >>,
           << FileItem("ClInclude", <<"d">>, << <<"A">> >>),
              FileItem("Text", <<"t", ".txt">>, << <<"A">> >>) >>) >>

WorkspaceSidecars ==
  { NoFile, createNewFiltersFile, File(DocPlain), File(DocSplit), File(DocDeep),
    File(DocTwice), File(DocDir) }

WorkspaceDisks == { WorkspaceFiles, WorkspaceFiles \ {FileA, FileT}, {FileA}, {} }

WorkspaceInit ==
  /\ clock = ClockZero
  /\ burst = NoBurst
  /\ second = NoSecond
  /\ builds = NoBuilds
  /\ fileClipboard = NoClipboard
  /\ sidecar \in WorkspaceSidecars
  /\ disk \in WorkspaceDisks
  /\ maxFiles \in {2, DefaultMaxFiles}
  /\ tree = EmptyTree
  /\ refreshTimer = FALSE
  /\ isDragging = FALSE
  /\ dragTimer = FALSE
  /\ dragData = NoDrag
  /\ last = NoOp
  /\ builtSince = FALSE
  /\ steps = 0

WorkspaceNext ==
  \/ getChildren
  \/ refreshCommand
  \/ timerFires
  \/ handleDrag
  \/ handleDrop

WorkspaceSpec == WorkspaceInit /\ [][WorkspaceNext]_vars

----------------------------------------------------------------------------
(* The debounce timer in time.  Spec and WorkspaceSpec do not follow the   *)
(* clock: there refreshTimer only says that a timer is pending.  Here the  *)
(* host's clock advances in ticks, setTimeout arms a timer due              *)
(* QuietInterval later, and the host runs the callback of a timer at the   *)
(* time it is due, before it delivers any later event.                     *)

\* A variant of debouncedRefresh without the clearTimeout
debouncedRefreshNoClear(c, dragging) ==
  IF dragging THEN c
  ELSE [c EXCEPT !.timers = c.timers \cup {c.now + QuietInterval},
                 !.handle = c.now + QuietInterval]

\* debouncedRefresh() on the clock: nothing during a drag; otherwise
\* clearTimeout(this.refreshTimer), then setTimeout(callback, 300)
debouncedRefreshAt(c, dragging) ==
  IF dragging THEN c
  ELSE [c EXCEPT !.timers = (c.timers \ {c.handle}) \cup {c.now + QuietInterval},
                 !.handle = c.now + QuietInterval]

\* No armed timer is due: the host has no callback to run first
NothingDue == \A t \in clock.timers : t > clock.now

\* A trigger continues the burst of the previous one when it arrives less
\* than QuietInterval after it
StartsBurst(previous) == previous = NoTime \/ clock.now - previous >= QuietInterval

\* A watcher callback calls debouncedRefresh() at the present time
callsDebouncedRefresh ==
  /\ NothingDue
  /\ clock.now + QuietInterval <= MaxTime
  /\ isDragging \/ StartsBurst(burst.lastAccepted) \/ burst.accTriggers < MaxBurst
  /\ clock' = debouncedRefreshAt(clock, isDragging)
  /\ refreshTimer' = debouncedRefresh
  /\ burst' = [burst EXCEPT
        !.lastTrigger = clock.now,
        !.refreshes = IF StartsBurst(burst.lastTrigger) THEN 0 ELSE @,
        !.lastAccepted = IF isDragging THEN @ ELSE clock.now,
        !.accTriggers = IF isDragging THEN @
                        ELSE IF StartsBurst(burst.lastAccepted) THEN 1 ELSE @ + 1,
        !.accRefreshes = IF ~isDragging /\ StartsBurst(burst.lastAccepted) THEN 0 ELSE @,
        !.lastEvent = clock.now]

\* A watcher event that calls debouncedRefresh(): the sidecar or a file that
\* is not excluded was touched, or files were renamed
watcherEvent ==
  /\ callsDebouncedRefresh
  /\ UNCHANGED <<fileClipboard, builds, second, sidecar, disk, tree, isDragging, dragTimer, dragData, maxFiles, last,
                 builtSince, steps>>

\* The callback setTimeout was given, run when its timer is due:
\* this.refresh(); this.refreshTimer = undefined
timerExpires ==
  /\ \E t \in clock.timers :
       /\ t = clock.now
       /\ clock' = [clock EXCEPT !.timers = @ \ {t}, !.handle = 0]
  /\ tree' = refresh
  /\ refreshTimer' = FALSE
  /\ burst' = [burst EXCEPT !.refreshes = @ + 1, !.accRefreshes = @ + 1,
                            !.refreshedAt = clock.now]
  /\ UNCHANGED <<fileClipboard, builds, second, sidecar, disk, isDragging, dragTimer, dragData, maxFiles, last,
                 builtSince, steps>>

\* The host's clock advances
tick ==
  /\ NothingDue
  /\ clock.now < MaxTime
  /\ clock' = [clock EXCEPT !.now = @ + 1]
  /\ UNCHANGED <<fileClipboard, builds, second, sidecar, disk, tree, refreshTimer, isDragging, dragTimer, dragData,
                 maxFiles, last, builtSince, steps, burst>>

\* The events the host delivers: what happened, and to which path
EventKinds == { "create", "delete", "change", "rename" }
BuildSidecar == <<"build", Slash, "p", ".vcxproj", ".filters">>
FileB == <<"d", Slash, "build", ".cpp">>
EventPaths == { SidecarUri, FileA, FileX, BuildSidecar, FileB }

\* The glob '**/*.vcxproj.filters' of filtersWatcher
IsFiltersFile(path) ==
  Len(path) >= 2 /\ path[Len(path) - 1] = ".vcxproj" /\ path[Len(path)] = ".filters"

\* Some callback registered in the constructor calls debouncedRefresh():
\* filtersWatcher on a change, create or delete of a sidecar path,
\* sourceFilesWatcher on a create or delete that shouldExcludeFile lets
\* through, onDidRenameFiles on every rename
Notifies(kind, path) ==
  \/ IsFiltersFile(path) /\ kind \in { "change", "create", "delete" }
  \/ kind \in { "create", "delete" } /\ ~shouldExcludeFile(path)
  \/ kind = "rename"

\* The host delivers an event to the watchers
fileEvent(kind, path) ==
  /\ last' = Op("event", kind, path, EmptyString, FALSE, sidecar,
                Result(sidecar, IF Notifies(kind, path) THEN "notified" ELSE "unheard",
                       FALSE, FALSE))
  /\ IF Notifies(kind, path)
       THEN callsDebouncedRefresh
       ELSE /\ NothingDue
            /\ clock.now + QuietInterval <= MaxTime
            /\ burst' = [burst EXCEPT !.lastEvent = clock.now]
            /\ UNCHANGED <<clock, refreshTimer>>
  /\ UNCHANGED <<fileClipboard, builds, second, sidecar, disk, tree, isDragging, dragTimer, dragData, maxFiles,
                 builtSince, steps>>

fileEvents == \E kind \in EventKinds, path \in EventPaths : fileEvent(kind, path)

WatcherInit ==
  /\ clock = ClockZero
  /\ burst = NoBurst
  /\ second = NoSecond
  /\ builds = NoBuilds
  /\ fileClipboard = NoClipboard
  /\ sidecar = File(DocPlain)
  /\ disk = AllFiles
  /\ maxFiles = DefaultMaxFiles
  /\ tree = EmptyTree
  /\ refreshTimer = FALSE
  /\ isDragging = FALSE
  /\ dragTimer = FALSE
  /\ dragData = NoDrag
  /\ last = NoOp
  /\ builtSince = FALSE
  /\ steps = 0

WatcherNext ==
  \/ fileEvents
  \/ timerExpires
  \/ tick
  \/ handleDrag
  \/ dragTimeout
  \/ dragCancelled

\* The host's clock advances and its event loop runs the callbacks of due timers
WatcherSpec ==
  WatcherInit /\ [][WatcherNext]_vars /\ WF_vars(tick) /\ WF_vars(timerExpires)

DebounceInit ==
  /\ clock = ClockZero
  /\ burst = NoBurst
  /\ second = NoSecond
  /\ builds = NoBuilds
  /\ fileClipboard = NoClipboard
  /\ sidecar \in { NoFile, File(DocPlain) }
  /\ disk = AllFiles
  /\ maxFiles = DefaultMaxFiles
  /\ tree = EmptyTree
  /\ refreshTimer = FALSE
  /\ isDragging = FALSE
  /\ dragTimer = FALSE
  /\ dragData = NoDrag
  /\ last = NoOp
  /\ builtSince = FALSE
  /\ steps = 0

DebounceNext ==
  \/ watcherEvent
  \/ timerExpires
  \/ tick
  \/ getChildren
  \/ handleDrag
  \/ dragTimeout
  \/ dragCancelled

\* The host's clock advances and its event loop runs the callbacks of due timers
DebounceSpec ==
  DebounceInit /\ [][DebounceNext]_vars /\ WF_vars(tick) /\ WF_vars(timerExpires)

----------------------------------------------------------------------------
(* A workspace with two folders, w1 and w2, side by side.  The variables   *)
(* sidecar, disk and tree are those of w1; second holds the sidecar and    *)
(* the cached tree of w2, whose files do not change.  A uri is written     *)
(* relative to w1, so a uri of w2 begins with "../w2"; separators are     *)
(* those of a POSIX host.                                                  *)

SecondRootUri == <<"..", Slash, "w2">>
FirstRootFromSecond == <<"..", Slash, "w1">>
Roots == {1, 2}

\* vscode.workspace.getWorkspaceFolder(uri): the folder that contains uri
getWorkspaceFolder(uri) == IF StartsWith(uri, SecondRootUri) THEN 2 ELSE 1

\* vscode.Uri.joinPath(folder.uri, relative), folder.uri itself for ''
UriIn(k, relative) ==
  IF k = 1 THEN relative
  ELSE SecondRootUri \o (IF relative = EmptyString THEN EmptyString ELSE <<Slash>> \o relative)

\* path.relative(folder.uri.fsPath, uri.fsPath)
RelativeTo(k, uri) ==
  IF k = 1 THEN uri
  ELSE IF getWorkspaceFolder(uri) = 2
    THEN (IF uri = SecondRootUri THEN EmptyString ELSE Substring(uri, Len(SecondRootUri) + 1))
  ELSE FirstRootFromSecond \o (IF uri = EmptyString THEN EmptyString ELSE <<Slash>> \o uri)

\* findFiltersFile(workspaceFolder.uri): the sidecar of the folder
SidecarOf(k) == IF k = 1 THEN sidecar ELSE second.sidecar

\* The files of w2 and the sidecars it may start with
FileC == <<"b", ".cpp">>
SecondFiles == { FileC }
DocSecond ==
  << Group(<< FilterDef(<<"A">>, "j1") >>, << >>),
     Group(<< >>, << FileItem("ClCompile", FileC, << <<"A">> >>) >>) >>

\* A sidecar of w1 with one filter, one file in it and an entry of a file
\* that is not on the disk
DocFirst ==
  << Group(<< FilterDef(<<"A">>, "i1") >>, << >>),
     Group(<< >>, << FileItem("ClCompile", FileA, << <<"A">> >>),
                     FileItem("Text", FileT, << <<"A">> >>) >>) >>

\* The nodes of the two cached trees a command, a drag or a drop can be given
RootsFolderTargets ==
  FolderTargets \cup { UriIn(2, FakeUri(p)) : p \in {RootUri} \cup TreeFolders(second.tree) }
RootsFileTargets ==
  FileTargets \cup { UriIn(2, second.tree.children[k].path) : k \in TreeFileNodes(second.tree) }

\* this.trees.clear(), for the tree of w2
refreshSecond == EmptyTree

\* The files and the cached tree of the folder k
FilesOf(k) == IF k = 1 THEN disk ELSE SecondFiles
TreeOf(k) == IF k = 1 THEN tree ELSE second.tree

\* A sidecar whose text XMLParser.parse throws on; it is kept as that text
Malformed == << [Filter |-> << >>, items |-> << >>, text |-> "<Project"] >>
Parses(sc) == sc.doc # Malformed

\* The file-system call of an operation that fails, if one does: the
\* writeFile of createNewFiltersFile, the first readFile, or the last writeFile
Faults == { "none", "create", "read", "write" }

\* What a writeFile that throws leaves of the file it was to replace: the
\* file as it was, or a part of the new text
FailedWrite(sc) == { sc, File(Malformed) }

\* The results of an operation under a fault.  refused: the operation gives up
\* before it reads the sidecar; ensures: it creates a missing sidecar first;
\* r: its result when no call fails; onError: its outcome when one does
WithFaults(sc, fault, refused, ensures, r, onError) ==
  IF refused \/ (~sc.exists /\ ~ensures) THEN {r}
  ELSE IF ~sc.exists
    THEN IF fault = "create"
           THEN { Result(s, onError, s # sc, s.exists) : s \in FailedWrite(sc) }
         ELSE IF fault = "read"
           THEN { Result(createNewFiltersFile, onError, TRUE, TRUE) }
         ELSE IF fault = "write"
           THEN { Result(s, onError, TRUE, TRUE) : s \in FailedWrite(createNewFiltersFile) }
         ELSE {r}
  ELSE IF fault = "read" \/ ~Parses(sc) THEN { Result(sc, onError, FALSE, FALSE) }
  ELSE IF fault = "write" /\ r.wrote
    THEN { Result(s, onError, s # sc, FALSE) : s \in FailedWrite(sc) }
  ELSE {r}

\* The sidecars an operation on the folder k leaves, r being its result
WritesSidecarOf(k, r, keepsTrees) ==
  /\ sidecar' = IF k = 1 THEN r.sidecar ELSE sidecar
  /\ second' = [sidecar |-> IF k = 2 THEN r.sidecar ELSE second.sidecar,
                tree |-> IF keepsTrees THEN second.tree ELSE refreshSecond]

RootsInit ==
  /\ clock = ClockZero
  /\ burst = NoBurst
  /\ sidecar \in { NoFile, File(DocFirst), File(Malformed) }
  /\ disk = AllFiles
  /\ maxFiles = DefaultMaxFiles
  /\ \E sc \in { NoFile, File(DocSecond) } : second = [sidecar |-> sc, tree |-> EmptyTree]
  /\ builds = NoBuilds
  /\ fileClipboard = NoClipboard
  /\ tree = EmptyTree
  /\ refreshTimer = FALSE
  /\ isDragging = FALSE
  /\ dragTimer = FALSE
  /\ dragData = NoDrag
  /\ last = NoOp
  /\ builtSince = FALSE
  /\ steps = 0

\* A variant in which a failed build leaves the root populated
FailedBuildPopulates(t) == [t EXCEPT !.populated = TRUE]

\* getChildren(element) when buildTree rejects: element.children and
\* element.populated are not assigned
FailedBuild(t) == t

\* getChildren(root of the folder k) on the unpopulated root: buildTree(k), with
\* its cleanup write; buildTree rejects when readFile, parse or writeFile throws
getChildrenOf(k) ==
  /\ ~TreeOf(k).populated
  /\ \E fault \in Faults \ {"create"} :
       LET sc == SidecarOf(k)
           all == OnDisk(sc, FilesOf(k))
           fails == sc.exists /\ (fault = "read" \/ ~Parses(sc))
           r == IF sc.exists /\ ~fails
                  THEN cleanupStaleFileReferences(sc.doc, all)
                  ELSE [doc |-> sc.doc, wrote |-> FALSE]
           writeFails == r.wrote /\ fault = "write"
       IN IF fails \/ writeFails
            THEN \E left \in (IF writeFails THEN FailedWrite(sc) ELSE {sc}) :
                   /\ sidecar' = IF k = 1 THEN left ELSE sidecar
                   /\ tree' = IF k = 1 THEN FailedBuild(tree) ELSE tree
                   /\ second' = IF k = 2
                                  THEN [sidecar |-> left, tree |-> FailedBuild(second.tree)]
                                  ELSE second
                   /\ last' = Op("build", "folder", UriIn(k, RootUri), EmptyString, FALSE, sc,
                                 Result(left, "failed", left # sc, FALSE))
                   /\ refreshTimer' = IF left # sc THEN debouncedRefresh ELSE refreshTimer
                   /\ UNCHANGED builtSince
            ELSE \E found \in FindFiles(all, maxFiles) :
                   LET built == buildTree(sc, FilesOf(k), found)
                       cleaned == [sc EXCEPT !.doc = r.doc]
                   IN /\ sidecar' = IF k = 1 THEN cleaned ELSE sidecar
                      /\ tree' = IF k = 1 THEN built ELSE tree
                      /\ second' = IF k = 2 THEN [sidecar |-> cleaned, tree |-> built]
                                            ELSE second
                      /\ refreshTimer' = IF r.wrote THEN debouncedRefresh ELSE refreshTimer
                      /\ builtSince' = IF k = 1 THEN TRUE ELSE builtSince
                      /\ UNCHANGED last
  /\ UNCHANGED <<fileClipboard, builds, clock, burst, disk, isDragging, dragTimer, dragData, maxFiles, steps>>

\* createFilter(parentFolder, filterName) on a folder node of either tree: the
\* workspace folder is that of parentFolder.uri
createFilterRoots ==
  /\ steps < MaxSteps
  /\ dragData = NoDrag
  /\ \E parentFolder \in RootsFolderTargets, filterName \in {<<"B">>}, guid \in {"g1"},
        fault \in Faults :
       LET k == getWorkspaceFolder(parentFolder)
           sc == SidecarOf(k)
       IN \E r \in WithFaults(sc, fault, FALSE, TRUE,
                              IF sc.exists /\ ~Parses(sc) THEN Result(sc, "rejected", FALSE, FALSE)
                              ELSE createFilterResult(sc, RelativeTo(k, parentFolder),
                                                      filterName, guid),
                              "rejected") :
            /\ WritesSidecarOf(k, r, TRUE)
            /\ last' = Op("createFilter", "folder", parentFolder, filterName, TRUE, sc, r)
            /\ refreshTimer' = IF r.outcome = "ok" \/ r.wrote THEN debouncedRefresh
                                                             ELSE refreshTimer
  /\ builtSince' = FALSE
  /\ steps' = steps + 1
  /\ UNCHANGED <<fileClipboard, builds, clock, burst, disk, tree, isDragging, dragTimer, dragData, maxFiles>>

\* deleteFilter(folderNode) on a folder node of either tree, with the dialog's answer
deleteFilterRoots ==
  /\ steps < MaxSteps
  /\ dragData = NoDrag
  /\ \E folderNode \in RootsFolderTargets, confirmed \in BOOLEAN, fault \in Faults \ {"create"} :
       LET k == getWorkspaceFolder(folderNode)
           sc == SidecarOf(k)
           filterPath == getFilterPath(RelativeTo(k, folderNode))
           refused == IsRootPath(filterPath) \/ ~confirmed
           given == IF ~sc.exists \/ IsRootPath(filterPath) THEN Result(sc, "rejected", FALSE, FALSE)
                    ELSE Result(sc, "cancelled", FALSE, FALSE)
       IN \E r \in WithFaults(sc, fault, refused, FALSE,
                              IF refused \/ ~sc.exists \/ ~Parses(sc) THEN given
                              ELSE deleteFilterResult(sc, RelativeTo(k, folderNode), confirmed),
                              "rejected") :
            /\ WritesSidecarOf(k, r, TRUE)
            /\ last' = Op("deleteFilter", "folder", folderNode, EmptyString, TRUE, sc, r)
            /\ refreshTimer' = IF r.outcome = "ok" \/ r.wrote THEN debouncedRefresh
                                                             ELSE refreshTimer
  /\ builtSince' = FALSE
  /\ steps' = steps + 1
  /\ UNCHANGED <<fileClipboard, builds, clock, burst, disk, tree, isDragging, dragTimer, dragData, maxFiles>>

\* handleDrag on a node of either tree
handleDragRoots ==
  /\ steps < MaxSteps
  /\ dragData = NoDrag
  /\ \/ \E uri \in RootsFolderTargets : dragData' = [type |-> "folder", uri |-> uri]
     \/ \E uri \in RootsFileTargets : dragData' = [type |-> "file", uri |-> uri]
  /\ isDragging' = TRUE
  /\ dragTimer' = TRUE
  /\ UNCHANGED <<fileClipboard, builds, second, clock, burst, sidecar, disk, tree, refreshTimer, maxFiles, last,
                 builtSince, steps>>

\* handleDrop(target, dataTransfer) on a folder node of either tree:
\* moveFileToFilter and moveFilterToParent take the workspace folder of the
\* dragged uri and the target's path relative to that folder
handleDropRoots ==
  /\ steps < MaxSteps
  /\ dragData.type # "none"
  /\ \E target \in RootsFolderTargets, fault \in Faults :
       LET k == getWorkspaceFolder(dragData.uri)
           sc == SidecarOf(k)
           source == RelativeTo(k, dragData.uri)
           onto == RelativeTo(k, target)
           refused == dragData.type = "folder"
                        /\ (IsIntoItself(getFilterPath(onto), getFilterPath(source))
                              \/ getFilterPath(source) = EmptyString)
           given == IF sc.exists THEN Result(sc, "rejected", FALSE, FALSE)
                                 ELSE Result(sc, "failed", FALSE, FALSE)
       IN \E r \in WithFaults(sc, fault, refused /\ sc.exists, dragData.type = "file",
                              IF dragData.type = "file" /\ (~sc.exists \/ Parses(sc))
                                THEN moveFileToFilterResult(sc, source, onto)
                              ELSE IF refused \/ ~sc.exists \/ ~Parses(sc) THEN given
                              ELSE moveFilterToParentResult(sc, source, onto),
                              IF dragData.type = "file" THEN "failed" ELSE "rejected") :
            /\ WritesSidecarOf(k, r, r.outcome = "failed")
            /\ last' = Op("drop", dragData.type, dragData.uri, target, TRUE, sc, r)
            /\ tree' = IF r.outcome = "failed" THEN tree ELSE refresh
            /\ refreshTimer' = IF r.wrote THEN TRUE ELSE refreshTimer
  /\ isDragging' = FALSE
  /\ dragData' = NoDrag
  /\ builtSince' = FALSE
  /\ steps' = steps + 1
  /\ UNCHANGED <<fileClipboard, builds, clock, burst, disk, dragTimer, maxFiles>>

\* The debounce timer's callback: refresh() clears the trees of every folder
timerFiresRoots ==
  /\ refreshTimer
  /\ tree' = refresh
  /\ second' = [second EXCEPT !.tree = refreshSecond]
  /\ refreshTimer' = FALSE
  /\ UNCHANGED <<fileClipboard, builds, clock, burst, sidecar, disk, isDragging, dragTimer, dragData, maxFiles,
                 last, builtSince, steps>>

getChildrenRoots == \E k \in Roots : getChildrenOf(k)

RootsNext ==
  \/ getChildrenRoots
  \/ createFilterRoots
  \/ deleteFilterRoots
  \/ handleDragRoots
  \/ handleDropRoots
  \/ timerFiresRoots

RootsSpec == RootsInit /\ [][RootsNext]_vars

----------------------------------------------------------------------------
(* The rename and delete commands over sidecars with an entry listed twice *)
(* and disks with files that no entry names.                               *)

PropagationInit ==
  /\ clock = ClockZero
  /\ burst = NoBurst
  /\ second = NoSecond
  /\ builds = NoBuilds
  /\ fileClipboard = NoClipboard
  /\ sidecar \in { NoFile, createNewFiltersFile, File(DocPlain), File(DocSplit),
                   File(DocTwice), File(DocDir) }
  /\ disk \in { WorkspaceFiles, {FileA, FileT} }
  /\ maxFiles = DefaultMaxFiles
  /\ tree = EmptyTree
  /\ refreshTimer = FALSE
  /\ isDragging = FALSE
  /\ dragTimer = FALSE
  /\ dragData = NoDrag
  /\ last = NoOp
  /\ builtSince = FALSE
  /\ steps = 0

PropagationNext ==
  \/ getChildren
  \/ renameFile
  \/ deleteFile
  \/ timerFires

PropagationSpec == PropagationInit /\ [][PropagationNext]_vars

----------------------------------------------------------------------------
(* getChildren in its steps.  buildTree awaits readFile, the stat of the   *)
(* files, the readFile and writeFile of the cleanup and findFiles; between *)
(* two of them the host runs other callbacks: a command, a watcher event,  *)
(* the debounce timer, another getChildren.  A call in flight is a record  *)
(* of its position (pc), the sidecar it read (sc), the files it saw when   *)
(* it ran stat on the entries (seen) and the copy the cleanup read (copy). *)

\* getChildren() is called by the tree view and by expandRootFilters; each
\* awaits the call it made
Callers == 2

BuildStarted == [pc |-> "start", sc |-> NoFile, seen |-> {}, copy |-> NoFile]

\* The calls in flight without the i-th, and with the i-th replaced
WithoutBuild(i) == SubSeq(builds.inFlight, 1, i - 1)
                     \o SubSeq(builds.inFlight, i + 1, Len(builds.inFlight))
WithBuild(i, b) == [builds.inFlight EXCEPT ![i] = b]

\* getChildren(root): element.populated is false, so buildTree is called
getChildrenBegins ==
  /\ ~tree.populated
  /\ builds.total < MaxBuilds
  /\ Len(builds.inFlight) < Callers
  /\ builds' = [builds EXCEPT !.inFlight = Append(@, BuildStarted), !.started = @ + 1,
                              !.total = @ + 1]
  /\ UNCHANGED <<fileClipboard, second, clock, burst, sidecar, disk, tree, refreshTimer, isDragging,
                 dragTimer, dragData, maxFiles, last, builtSince, steps>>

\* buildTree: findFiltersFile, readFile and parse, then the loop over the
\* entries with its stat calls; without a sidecar the bare root is returned
buildReads ==
  /\ \E i \in 1..Len(builds.inFlight) :
       /\ builds.inFlight[i].pc = "start"
       /\ builds' = [builds EXCEPT !.inFlight =
            WithBuild(i, [pc |-> IF sidecar.exists THEN "cleanup" ELSE "return",
                          sc |-> sidecar, seen |-> OnDisk(sidecar, disk), copy |-> NoFile])]
  /\ UNCHANGED <<fileClipboard, second, clock, burst, sidecar, disk, tree, refreshTimer, isDragging,
                 dragTimer, dragData, maxFiles, last, builtSince, steps>>

\* cleanupStaleFileReferences: readFile and parse
cleanupReads ==
  /\ \E i \in 1..Len(builds.inFlight) :
       /\ builds.inFlight[i].pc = "cleanup"
       /\ builds' = [builds EXCEPT !.inFlight =
            IF sidecar.exists
              THEN WithBuild(i, [builds.inFlight[i] EXCEPT !.pc = "stat", !.copy = sidecar])
              ELSE WithoutBuild(i)]
  /\ UNCHANGED <<fileClipboard, second, clock, burst, sidecar, disk, tree, refreshTimer, isDragging,
                 dragTimer, dragData, maxFiles, last, builtSince, steps>>

\* cleanupStaleFileReferences: the stat of every entry of the copy it read, and
\* the writeFile of that copy without the stale entries; the filters watcher
\* then calls debouncedRefresh
cleanupWrites ==
  /\ \E i \in 1..Len(builds.inFlight) :
       LET b == builds.inFlight[i]
           r == cleanupStaleFileReferences(b.copy.doc, OnDisk(sidecar, disk))
       IN /\ b.pc = "stat"
          /\ sidecar' = IF r.wrote THEN File(r.doc) ELSE sidecar
          /\ refreshTimer' = IF r.wrote THEN debouncedRefresh ELSE refreshTimer
          /\ builds' = [builds EXCEPT !.inFlight = WithBuild(i, [b EXCEPT !.pc = "return"]),
                                      !.wrote = IF r.wrote THEN @ + 1 ELSE @]
  /\ UNCHANGED <<fileClipboard, second, clock, burst, disk, tree, isDragging, dragTimer, dragData,
                 maxFiles, last, builtSince, steps>>

\* The children buildTree returns from the sidecar it read (sc), the files
\* its stat calls saw (seen) and what findFiles and the stat calls of
\* addUnfilteredFilesToRoot see now (found, all)
builtChildren(sc, seen, found, all) ==
  IF ~sc.exists THEN << >>
  ELSE LET withDefs == AddDefs(<< >>, AllDefs(Groups(sc.doc)))
           withFiles == AddFiles(withDefs, TreeItems(sc.doc), seen)
           unfiltered == UnfilteredFiles(found, FilteredFiles(sc.doc, seen), all)
       IN sortNodeRecursively(addUnfilteredFilesToRoot(withFiles, unfiltered))

\* addUnfilteredFilesToRoot with its findFiles, the sort, and the return to
\* getChildren, which assigns the children, sets populated and caches the root
getChildrenReturns ==
  /\ \E i \in 1..Len(builds.inFlight) :
       LET b == builds.inFlight[i]
           all == OnDisk(sidecar, disk)
       IN /\ b.pc = "return"
          /\ \E found \in (IF b.sc.exists THEN FindFiles(all, maxFiles) ELSE {{}}) :
               tree' = [populated |-> TRUE, children |-> builtChildren(b.sc, b.seen, found, all)]
          /\ builds' = [builds EXCEPT !.inFlight = WithoutBuild(i), !.lastRead = b.sc]
  /\ builtSince' = TRUE
  /\ UNCHANGED <<fileClipboard, second, clock, burst, sidecar, disk, refreshTimer, isDragging, dragTimer,
                 dragData, maxFiles, last, steps>>

\* The debounce timer's callback: refresh(); the count of the calls starts again
timerFiresAsync ==
  /\ refreshTimer
  /\ tree' = refresh
  /\ refreshTimer' = FALSE
  /\ builds' = [builds EXCEPT !.started = 0, !.wrote = 0]
  /\ UNCHANGED <<fileClipboard, second, clock, burst, sidecar, disk, isDragging, dragTimer, dragData,
                 maxFiles, last, builtSince, steps>>

AsyncInit ==
  /\ clock = ClockZero
  /\ burst = NoBurst
  /\ second = NoSecond
  /\ builds = NoBuilds
  /\ fileClipboard = NoClipboard
  /\ \/ sidecar = NoFile /\ disk = AllFiles
     \/ sidecar = File(DocFirst) /\ disk = AllFiles
     \/ sidecar = File(DocPlain) /\ disk = AllFiles \ {FileA}
  /\ maxFiles = DefaultMaxFiles
  /\ tree = EmptyTree
  /\ refreshTimer = FALSE
  /\ isDragging = FALSE
  /\ dragTimer = FALSE
  /\ dragData = NoDrag
  /\ last = NoOp
  /\ builtSince = FALSE
  /\ steps = 0

AsyncNext ==
  \/ getChildrenBegins
  \/ buildReads
  \/ cleanupReads
  \/ cleanupWrites
  \/ getChildrenReturns
  \/ timerFiresAsync
  \/ createFilter
  \/ diskChange

AsyncSpec == AsyncInit /\ [][AsyncNext]_vars

----------------------------------------------------------------------------
(* The file clipboard: vsFilters.cut, vsFilters.copy and vsFilters.paste.  *)
(* The commands are given the file node or folder node the user selected.  *)

\* 'while (copyCount < 20)', the safety limit of paste's search for a name
SafetyLimit == 20

\* A variant that returns the first <Filter> of the entry
getFileFilterFirstReference(sc, fileUri) ==
  LET hits == SelectSeq(AllItems(Groups(sc.doc)),
                        LAMBDA it : it.Include = RelativePath(fileUri) /\ Truthy(it.Filter))
  IN IF ~sc.exists \/ ~HasItemGroup(sc.doc) \/ hits = << >>
       THEN [defined |-> FALSE, filter |-> EmptyString]
       ELSE [defined |-> TRUE, filter |-> Head(Head(hits).Filter)]

\* getFileFilter(fileUri): the last <Filter> of the first entry whose Include is
\* the file's root-relative path and that has a filter; undefined otherwise
getFileFilter(sc, fileUri) ==
  LET hits == SelectSeq(AllItems(Groups(sc.doc)),
                        LAMBDA it : it.Include = RelativePath(fileUri) /\ Truthy(it.Filter))
  IN IF ~sc.exists \/ ~HasItemGroup(sc.doc) \/ hits = << >>
       THEN [defined |-> FALSE, filter |-> EmptyString]
       ELSE [defined |-> TRUE, filter |-> LastFilter(Head(hits).Filter)]

\* path.dirname(uri.fsPath), relative to the workspace folder
DirName(uri) ==
  LET idx == LastIndexOf(uri, Slash)
  IN IF idx = 0 THEN EmptyString ELSE SubSeq(uri, 1, idx - 1)

\* vscode.Uri.joinPath(dir, name)
JoinPath(dir, name) == IF dir = EmptyString THEN name ELSE dir \o <<Slash>> \o name

\* fs.stat(uri) succeeds: a file or a directory is there
StatSucceeds(uri, all) == uri = EmptyString \/ IsFile(uri, all) \/ IsDirectory(uri, all)

\* `${parsedPath.name}${' copy'.repeat(copyCount)}${parsedPath.ext}`
CopyName(fileName, copyCount) ==
  LET suffix == [i \in 1..copyCount |-> " copy"]
  IN IF Len(fileName) >= 2
       THEN SubSeq(fileName, 1, Len(fileName) - 1) \o suffix \o <<ExtName(fileName)>>
       ELSE fileName \o suffix

\* paste's destinationPath: the source's name, or when that exists the first
\* name with 1, 2, ... ' copy' that does not exist; the do-while loop ends
\* with the name it tried last when copyCount reaches the limit
DestinationPath(dir, fileName, all) ==
  IF ~StatSucceeds(JoinPath(dir, fileName), all) THEN JoinPath(dir, fileName)
  ELSE LET free == { k \in 1..(SafetyLimit - 1) :
                       ~StatSucceeds(JoinPath(dir, CopyName(fileName, k)), all) }
       IN JoinPath(dir, CopyName(fileName,
            IF free = {} THEN SafetyLimit - 1 ELSE CHOOSE k \in free : \A j \in free : k <= j))

\* moveFileToFilterPath(fileUri, filterPath)
moveFileToFilterPathResult(sc, fileUri, filterPath) ==
  LET ensured == EnsureFiltersFile(sc)
  IN Result(File(updateFileFilterInXML(ensured.doc, RelativePath(fileUri), filterPath)),
            "ok", TRUE, ~sc.exists)

\* The file nodes the user selects for the clipboard commands
SelectedFiles == { FileA, FileH }

\* vsFilters.cut and vsFilters.copy on a file node; folders are refused with a
\* message
cutOrCopy ==
  /\ steps < MaxSteps
  /\ dragData = NoDrag
  /\ \E uri \in FileTargets \cap SelectedFiles, isCut \in BOOLEAN :
       /\ [full |-> TRUE, uri |-> uri, isCut |-> isCut] # fileClipboard
       /\ fileClipboard' = [full |-> TRUE, uri |-> uri, isCut |-> isCut]
  /\ UNCHANGED <<builds, second, clock, burst, sidecar, disk, tree, refreshTimer, isDragging,
                 dragTimer, dragData, maxFiles, last, builtSince, steps>>

\* The state paste leaves: disk, clipboard, sidecar, outcome, written or not
PasteResult(node, onFile) ==
  LET all == OnDisk(sidecar, disk)
      source == fileClipboard.uri
      destinationDir == IF onFile /\ StatSucceeds(DirName(node), all)
                          THEN DirName(node) ELSE RootUri
      destinationPath == DestinationPath(destinationDir, BaseName(source), all)
      targetFilter == IF onFile THEN getFileFilter(sidecar, node)
                      ELSE [defined |-> TRUE, filter |-> getFilterPath(node)]
      applies == targetFilter.defined /\ targetFilter.filter # EmptyString
      moved == IF applies THEN moveFileToFilterPathResult(sidecar, destinationPath,
                                                         targetFilter.filter)
               ELSE Result(sidecar, "ok", FALSE, FALSE)
  IN IF ~StatSucceeds(source, all)
       THEN [sidecar |-> sidecar, disk |-> disk, clipboard |-> NoClipboard, to |-> destinationPath,
             outcome |-> "rejected", wrote |-> FALSE, created |-> FALSE]
     ELSE IF fileClipboard.isCut /\ StatSucceeds(destinationPath, all)
       THEN [sidecar |-> sidecar, disk |-> disk, clipboard |-> fileClipboard, to |-> destinationPath,
             outcome |-> "failed", wrote |-> FALSE, created |-> FALSE]
     ELSE [sidecar |-> moved.sidecar,
           disk |-> (IF fileClipboard.isCut THEN disk \ {source} ELSE disk) \cup {destinationPath},
           clipboard |-> IF fileClipboard.isCut THEN NoClipboard ELSE fileClipboard,
           to |-> destinationPath,
           outcome |-> "ok", wrote |-> moved.wrote, created |-> moved.created]

\* vsFilters.paste on a folder node or a file node, with a file in the clipboard
paste ==
  /\ steps < MaxSteps
  /\ dragData = NoDrag
  /\ fileClipboard.full
  /\ \E onFile \in BOOLEAN :
       \E node \in (IF onFile THEN FileTargets \cap SelectedFiles ELSE FolderTargets) :
         LET r == PasteResult(node, onFile)
         IN /\ sidecar' = r.sidecar
            /\ disk' = r.disk
            /\ fileClipboard' = r.clipboard
            /\ last' = Op("paste", IF onFile THEN "file" ELSE "folder", fileClipboard.uri,
                          r.to, ~onFile, sidecar, r)
            /\ tree' = IF r.outcome = "ok" THEN refresh ELSE tree
            /\ refreshTimer' = IF r.outcome = "ok"
                                 THEN WatchersReact({fileClipboard.uri, r.to}, r.wrote)
                                 ELSE refreshTimer
  /\ builtSince' = FALSE
  /\ steps' = steps + 1
  /\ UNCHANGED <<builds, second, clock, burst, isDragging, dragTimer, dragData, maxFiles>>

\* The copies 'a copy.cpp', 'a copy copy.cpp', ... up to n times ' copy'
Copies(fileName, n) == { CopyName(fileName, k) : k \in 1..n }

PasteInit ==
  /\ clock = ClockZero
  /\ burst = NoBurst
  /\ second = NoSecond
  /\ builds = NoBuilds
  /\ fileClipboard = NoClipboard
  /\ sidecar \in { NoFile, File(DocPlain), File(DocSplit) }
  /\ maxFiles = DefaultMaxFiles
  /\ disk \in { AllFiles, AllFiles \cup Copies(FileA, 1),
                AllFiles \cup Copies(FileA, SafetyLimit - 2),
                AllFiles \cup Copies(FileA, SafetyLimit - 1) }
  /\ tree = EmptyTree
  /\ refreshTimer = FALSE
  /\ isDragging = FALSE
  /\ dragTimer = FALSE
  /\ dragData = NoDrag
  /\ last = NoOp
  /\ builtSince = FALSE
  /\ steps = 0

PasteNext ==
  \/ getChildren
  \/ cutOrCopy
  \/ paste
  \/ timerFires

PasteSpec == PasteInit /\ [][PasteNext]_vars

----------------------------------------------------------------------------
(* Vocabulary of the properties.                                           *)

\* path is filterPath itself or nested under it, the separator as boundary
IsNestedUnder(path, filterPath) ==
  path = filterPath \/ StartsWith(path, filterPath \o <<Sep>>)

\* The filter a file entry associates its file with, EmptyString for none
Association(item) == IF Truthy(item.Filter) THEN LastFilter(item.Filter) ELSE EmptyString
IsAssociated(item) == Truthy(item.Filter)

\* The last operation and the paths it was given
LastSource == getFilterPath(last.src)
LastTarget == getFilterPath(last.arg)
JustDone(op) == last.op = op /\ ~builtSince
DeletedFilter == JustDone("deleteFilter") /\ last.outcome = "ok"
MoveFilterCalled == last.op = "drop" /\ last.type = "folder" /\ last.onFolder
MoveFileCalled == last.op = "drop" /\ last.type = "file" /\ last.onFolder

\* The last segment of a path, and the path a filter has after moving it under a parent
LastSegment(path) == Substring(path, LastIndexOf(path, Sep))
ExpectedPath(parentPath, name) ==
  IF parentPath = EmptyString THEN name ELSE parentPath \o <<Sep>> \o name

----------------------------------------------------------------------------
\* C1: deleteFilter on path P removes exactly the definitions and the file
\* entries whose filter path is P or begins with P followed by '\'; a path
\* that has P only as a plain string prefix ("AB" for "A") is left alone.
C1_DeleteRemovesExactlyNested ==
  DeletedFilter =>
    /\ AllDefs(sidecar.doc) =
         SelectSeq(AllDefs(last.pre.doc), LAMBDA d : ~IsNestedUnder(d.Include, LastSource))
    /\ AllItems(sidecar.doc) =
         SelectSeq(AllItems(last.pre.doc),
                   LAMBDA it : ~(IsAssociated(it) /\ IsNestedUnder(Association(it), LastSource)))

\* C2: a moveFilterToParent whose destination is the source or nested under
\* it is rejected, and the sidecar is what it was before the call.
C2_CycleRejectedUntouched ==
  (MoveFilterCalled /\ IsNestedUnder(LastTarget, LastSource)) =>
    /\ last.outcome \in {"rejected", "failed"}
    /\ ~last.wrote
    /\ ~builtSince => sidecar = last.pre

C2_Witness ==
  /\ MoveFilterCalled /\ ~builtSince
  /\ LastSource = <<"A">> /\ LastTarget = <<"A", Sep, "B">>
  /\ last.outcome = "rejected"
  /\ sidecar = File(DocPlain)

\* C3: moveFilterToParent rejects a move exactly when the destination is the
\* source or begins with the source followed by '\'; every other move of a
\* non-root filter is carried out ("A" under its sibling "AB").
C3_RejectsExactlyCycles ==
  (MoveFilterCalled /\ last.pre.exists /\ LastSource # EmptyString) =>
    /\ last.outcome = "rejected" <=> IsNestedUnder(LastTarget, LastSource)
    /\ last.outcome = "ok" <=> ~IsNestedUnder(LastTarget, LastSource)

\* C4: after an accepted move from oldPath to newPath every definition and
\* every file association that was oldPath or under oldPath + '\' has that
\* prefix replaced by newPath, and every other definition and file entry is
\* unchanged.
C4_MoveRewritesSubtree ==
  (MoveFilterCalled /\ ~builtSince /\ last.outcome = "ok") =>
    LET oldPath == LastSource
        newPath == ExpectedPath(LastTarget, LastSegment(oldPath))
        rewritten(path) == newPath \o Substring(path, Len(oldPath))
        before == last.pre.doc
        after == sidecar.doc
    IN /\ Len(after) = Len(before)
       /\ \A i \in 1..Len(before) :
            /\ Len(after[i].Filter) = Len(before[i].Filter)
            /\ Len(after[i].items) = Len(before[i].items)
            /\ \A k \in 1..Len(before[i].Filter) :
                 LET d == before[i].Filter[k]
                 IN after[i].Filter[k] =
                      IF IsNestedUnder(d.Include, oldPath)
                        THEN [d EXCEPT !.Include = rewritten(d.Include)] ELSE d
            /\ \A k \in 1..Len(before[i].items) :
                 LET it == before[i].items[k]
                 IN IF IsAssociated(it) /\ IsNestedUnder(Association(it), oldPath)
                      THEN /\ after[i].items[k].Include = it.Include
                           /\ after[i].items[k].tag = it.tag
                           /\ Association(after[i].items[k]) = rewritten(Association(it))
                      ELSE after[i].items[k] = it

C4_Witness ==
  /\ MoveFilterCalled /\ ~builtSince /\ last.outcome = "ok"
  /\ last.pre = File(DocSplit)
  /\ LastSource = <<"A">> /\ LastTarget = <<"B">>
  /\ \E d \in Range(AllDefs(sidecar.doc)) : d.Include = <<"B", Sep, "A", Sep, "B">>
  /\ \E it \in Range(AllItems(sidecar.doc)) : it.Filter = << <<"B", Sep, "A">> >>

\* C5 (as stated): after deleteFilter(P) and a rebuild no filter node is P or
\* nested under P, every file that was associated with P or a nested filter
\* is rendered directly under the root, and the files on disk are unchanged.
RebuiltAfterDelete ==
  last.op = "deleteFilter" /\ last.outcome = "ok" /\ builtSince /\ tree.populated

WasUnderDeleted(item) ==
  /\ IsAssociated(item) /\ IsNestedUnder(Association(item), LastSource)
  /\ IsFile(FileUri(item.Include), last.disk)

RenderedUnderRoot(uri) ==
  Cardinality({ k \in TreeFileNodes(tree) :
                  tree.children[k].parent = EmptyString /\ tree.children[k].path = uri }) = 1

C5_DeletedFilesAllUnderRoot ==
  RebuiltAfterDelete =>
    /\ \A n \in TreeFolders(tree) : ~IsNestedUnder(n, LastSource)
    /\ \A it \in Range(AllItems(last.pre.doc)) :
         WasUnderDeleted(it) => RenderedUnderRoot(FileUri(it.Include))
    /\ disk = last.disk

\* C5 (amended): after deleteFilter(P) and a rebuild no filter node is P or
\* nested under P, the files on disk are unchanged, and every file that was
\* associated with P or a nested filter is rendered directly under the root
\* when it matches no exclusion pattern, the files the enumeration finds do not
\* exceed maxFiles, and no other entry still associates it with a filter.
EnumerationComplete ==
  Cardinality({ u \in OnDisk(sidecar, disk) : ~Excluded(u) }) <= maxFiles

C5_DeletedFilesUnderRootWhenEnumerated ==
  RebuiltAfterDelete =>
    /\ \A n \in TreeFolders(tree) : ~IsNestedUnder(n, LastSource)
    /\ \A k \in TreeFileNodes(tree) : ~IsNestedUnder(tree.children[k].parent, LastSource)
    /\ \A it \in Range(AllItems(last.pre.doc)) :
         ( /\ WasUnderDeleted(it)
           /\ ~Excluded(FileUri(it.Include))
           /\ EnumerationComplete
           /\ \A other \in Range(AllItems(sidecar.doc)) :
                FileUri(other.Include) = FileUri(it.Include) => ~IsAssociated(other) )
         => RenderedUnderRoot(FileUri(it.Include))
    /\ disk = last.disk

C5_Witness ==
  /\ RebuiltAfterDelete
  /\ last.pre = File(DocPlain) /\ LastSource = <<"A">>
  /\ RenderedUnderRoot(FileA)
  /\ TreeFolders(tree) = {}

\* C6: deleteFilter on the root node is rejected and writes nothing: the
\* sidecar, or its absence, is as before the call.
C6_DeleteRootRejected ==
  (last.op = "deleteFilter" /\ last.src = RootUri) =>
    /\ last.outcome = "rejected"
    /\ ~last.wrote /\ ~last.created
    /\ ~builtSince => sidecar = last.pre

C6_Witness ==
  /\ JustDone("deleteFilter") /\ last.src = RootUri
  /\ last.outcome = "rejected"
  /\ sidecar = File(DocPlain)

\* C7: after a successful createFilter(parent, name) the sidecar has a filter
\* definition whose path is name under the root and parent.path + '\' + name
\* otherwise, carrying an identifier (a generated one when it was added).
C7_CreateAddsDefinition ==
  (JustDone("createFilter") /\ last.outcome = "ok") =>
    LET path == ExpectedPath(LastSource, last.arg)
        isNew == \A d \in Range(AllDefs(last.pre.doc)) : d.Include # path
    IN \E d \in Range(AllDefs(sidecar.doc)) :
         /\ d.Include = path
         /\ isNew => d.UniqueIdentifier \in Guids

C7_Witness ==
  /\ JustDone("createFilter") /\ last.outcome = "ok"
  /\ LastSource = <<"A", "B">> /\ last.arg = <<"A">>
  /\ \E d \in Range(AllDefs(sidecar.doc)) :
       d.Include = <<"A", "B", Sep, "A">> /\ d.UniqueIdentifier \in Guids

\* C8: createFilter is a no-op when the computed path already has a
\* definition anywhere in the sidecar: the definitions and their identifiers
\* are unchanged and no second definition of the path is added.
C8_CreateExistingIsNoOp ==
  ( /\ JustDone("createFilter") /\ last.outcome = "ok"
    /\ \E d \in Range(AllDefs(last.pre.doc)) : d.Include = ExpectedPath(LastSource, last.arg) )
  => AllDefs(sidecar.doc) = AllDefs(last.pre.doc)

\* C9 (as stated): each of createFilter, deleteFilter, moveFileToFilter and
\* moveFilterToParent, called on a node other than the root when no sidecar
\* exists, first creates the sidecar and then reads, modifies and writes it.
MutationCalled ==
  last.op \in {"createFilter", "deleteFilter"} \/ MoveFileCalled \/ MoveFilterCalled

C10_MoveFileUpdatesEntry ==
  ( /\ MoveFileCalled /\ ~builtSince /\ last.outcome = "ok"
    /\ \E it \in Range(AllItems(last.pre.doc)) : it.Include = RelativePath(last.src) )
  => LET before == AllItems(last.pre.doc)
         after == AllItems(sidecar.doc)
     IN /\ Len(after) = Len(before)
        /\ \A k \in 1..Len(before) :
             IF before[k].Include = RelativePath(last.src)
               THEN /\ after[k].Include = before[k].Include
                    /\ after[k].tag = before[k].tag
                    /\ after[k].Filter =
                         IF LastTarget # EmptyString THEN <<LastTarget>> ELSE << >>
               ELSE after[k] = before[k]

C10_Witness ==
  /\ MoveFileCalled /\ ~builtSince /\ last.outcome = "ok"
  /\ last.src = FileH /\ last.arg = RootUri
  /\ last.pre = File(DocPlain)
  /\ \E it \in Range(AllItems(sidecar.doc)) :
       it.Include = <<"d", Sep, "h", ".h">> /\ it.Filter = << >>

\* C11: no file entry of the sidecar has an empty-string filter reference,
\* whatever operations and builds have run; an entry meant to be unfiltered
\* has no filter reference at all.
C11_NoEmptyFilterReference ==
  sidecar.exists =>
    \A it \in Range(AllItems(sidecar.doc)) :
      \A k \in 1..Len(it.Filter) : it.Filter[k] # EmptyString

C11_Witness ==
  /\ MoveFileCalled /\ ~builtSince /\ last.outcome = "ok"
  /\ last.pre = createNewFiltersFile
  /\ last.src = FileA /\ last.arg = RootUri
  /\ AllItems(sidecar.doc) = << FileItem("ClCompile", <<"a", ".cpp">>, << >>) >>

\* C12 (as stated): when moveFileToFilter is applied to a file with no
\* sidecar entry, the new entry has the compiled-source type for a
\* compiled-source extension, the header type for a header-like extension,
\* the resource type for a resource script and the text type for every other
\* extension.
CompiledExtensions == {".cpp", ".c", ".cc", ".cxx"}
HeaderExtensions == {".h", ".hpp", ".hh", ".hxx"}
ResourceExtensions == {".rc", ".rc2"}
TextExtensions == {".txt", ".md", ".xml", ".json"}

MovedFileWithoutEntry ==
  /\ MoveFileCalled /\ ~builtSince /\ last.outcome = "ok"
  /\ \A it \in Range(AllItems(last.pre.doc)) : it.Include # RelativePath(last.src)

NewEntries ==
  SelectSeq(AllItems(sidecar.doc), LAMBDA it : it.Include = RelativePath(last.src))

C12_TextTypeForOtherExtensions ==
  MovedFileWithoutEntry =>
    /\ Len(NewEntries) = 1
    /\ LET extension == last.src[Len(last.src)]
       IN NewEntries[1].tag =
            IF extension \in CompiledExtensions THEN "ClCompile"
            ELSE IF extension \in HeaderExtensions THEN "ClInclude"
            ELSE IF extension \in ResourceExtensions THEN "ResourceCompile"
            ELSE "Text"

\* C12 (amended): the new entry has the compiled-source type for .cpp, .c,
\* .cc and .cxx, the resource type for .rc and .rc2, the text type for .txt,
\* .md, .xml and .json, and the header type for every other extension.
C12_HeaderTypeForOtherExtensions ==
  MovedFileWithoutEntry =>
    /\ Len(NewEntries) = 1
    /\ Association(NewEntries[1]) = LastTarget
    /\ LET extension == last.src[Len(last.src)]
       IN NewEntries[1].tag =
            IF extension \in CompiledExtensions THEN "ClCompile"
            ELSE IF extension \in ResourceExtensions THEN "ResourceCompile"
            ELSE IF extension \in TextExtensions THEN "Text"
            ELSE "ClInclude"

C12_Witness ==
  /\ MovedFileWithoutEntry
  /\ last.src = FileR /\ LastTarget = <<"A">>
  /\ NewEntries = << FileItem("ResourceCompile", <<"r", ".rc">>, << <<"A">> >>) >>

\* C13: createFilter, moveFileToFilter, the rename propagation and the delete
\* propagation leave every filter definition (path and identifier) and every
\* file entry (Include and filter reference) as it was, except the one
\* definition added and the entries of the one file they target.
OtherEntries(doc, relativePath) ==
  SelectSeq(AllItems(doc), LAMBDA it : it.Include # relativePath)

WithoutIndex(seq, k) == SubSeq(seq, 1, k - 1) \o SubSeq(seq, k + 1, Len(seq))

FrameOfCreate ==
  LET before == AllDefs(Groups(last.pre.doc))
      after == AllDefs(sidecar.doc)
  IN /\ AllItems(sidecar.doc) = AllItems(Groups(last.pre.doc))
     /\ \/ after = before
        \/ \E k \in 1..Len(after) :
             /\ after[k].Include = ExpectedPath(LastSource, last.arg)
             /\ WithoutIndex(after, k) = before

FrameOfMoveFile ==
  /\ AllDefs(sidecar.doc) = AllDefs(Groups(last.pre.doc))
  /\ OtherEntries(sidecar.doc, RelativePath(last.src))
       = OtherEntries(Groups(last.pre.doc), RelativePath(last.src))

FrameOfRename ==
  LET before == AllItems(last.pre.doc)
      after == AllItems(sidecar.doc)
  IN /\ AllDefs(sidecar.doc) = AllDefs(last.pre.doc)
     /\ Len(after) = Len(before)
     /\ \A k \in 1..Len(before) :
          IF before[k].Include = RelativePath(last.src)
            THEN after[k] = [before[k] EXCEPT !.Include = RelativePath(last.arg)]
            ELSE after[k] = before[k]

FrameOfDeleteFile ==
  /\ AllDefs(sidecar.doc) = AllDefs(last.pre.doc)
  /\ AllItems(sidecar.doc) = OtherEntries(last.pre.doc, RelativePath(last.src))

C13_FrameOfFileAndCreateOperations ==
  (~builtSince /\ last.outcome = "ok" /\ last.pre.exists /\ sidecar.exists) =>
    /\ last.op = "createFilter" => FrameOfCreate
    /\ MoveFileCalled => FrameOfMoveFile
    /\ last.op = "renameFile" => FrameOfRename
    /\ last.op = "deleteFile" => FrameOfDeleteFile

C13_Witness ==
  /\ ~builtSince /\ last.op = "renameFile" /\ last.outcome = "ok" /\ last.wrote
  /\ last.pre = File(DocPlain) /\ last.src = FileA
  /\ \E it \in Range(AllItems(sidecar.doc)) :
       it.Include = <<"b", ".cpp">> /\ it.Filter = << <<"A", Sep, "B">> >>

\* C14: after a build every FileNode of the tree refers to a file that exists
\* on disk, and the sidecar has no file entry whose Include path does not
\* exist on disk.
Built == builtSince /\ tree.populated

C14_BuildShowsAndKeepsOnlyExistingFiles ==
  Built =>
    /\ \A k \in TreeFileNodes(tree) : IsFile(tree.children[k].path, OnDisk(sidecar, disk))
    /\ sidecar.exists =>
         \A it \in Range(AllItems(sidecar.doc)) :
           it.Include # EmptyString =>
             \/ IsFile(FileUri(it.Include), OnDisk(sidecar, disk))
             \/ IsDirectory(FileUri(it.Include), disk)

C14_Witness ==
  /\ Built /\ last = NoOp
  /\ disk = WorkspaceFiles \ {FileA, FileT}
  /\ AllItems(sidecar.doc) =
       << FileItem("ClCompile", <<"build", Sep, "x", ".cpp">>, << <<"A">> >>),
          FileItem("ClInclude", <<"d", Sep, "h", ".h">>, << <<"A", "B">> >>) >>
  /\ \A k \in TreeFileNodes(tree) : tree.children[k].path # FileA

\* C15: the cleanup is idempotent: a cleanup pass that follows a cleanup pass
\* over the same disk performs no write and leaves the sidecar's content
\* identical, whether the first pass was the one of the last build or is run
\* on the sidecar as it stands.
SecondPass(doc) == cleanupStaleFileReferences(doc, OnDisk(sidecar, disk))

C15_SecondCleanupWritesNothing ==
  sidecar.exists =>
    /\ Built => ~SecondPass(sidecar.doc).wrote /\ SecondPass(sidecar.doc).doc = sidecar.doc
    /\ LET first == SecondPass(sidecar.doc)
       IN ~SecondPass(first.doc).wrote /\ SecondPass(first.doc).doc = first.doc

\* The build's pass dropped the directory entry and the entry of the missing
\* t.txt, wrote the sidecar and so armed the refresh timer
C15_Witness ==
  /\ Built /\ last = NoOp /\ sidecar.exists /\ refreshTimer
  /\ disk = WorkspaceFiles \ {FileA, FileT}
  /\ AllItems(sidecar.doc) = << >>
  /\ Range(AllDefs(Groups(sidecar.doc))) # {}

\* C16: in the tree a build returns (the disk unchanged during the build,
\* fewer files than maxFiles) every existing non-excluded file appears exactly
\* once: under the node of its filter when the sidecar associates it with a
\* filter, and directly under the root otherwise.
Eligible == { u \in OnDisk(sidecar, disk) : ~Excluded(u) }

NodesOf(uri) == { k \in TreeFileNodes(tree) : tree.children[k].path = uri }

EntriesOf(uri) ==
  { k \in 1..Len(TreeItems(sidecar.doc)) : FileUri(TreeItems(sidecar.doc)[k].Include) = uri }

ExpectedParents(uri) ==
  IF EntriesOf(uri) = {} THEN { EmptyString }
  ELSE { LastFilter(TreeItems(sidecar.doc)[k].Filter) : k \in EntriesOf(uri) }

C16_EveryFileAppearsExactlyOnce ==
  (Built /\ sidecar.exists /\ Cardinality(Eligible) < maxFiles) =>
    \A u \in Eligible :
      /\ Cardinality(NodesOf(u)) = 1
      /\ \A k \in NodesOf(u) : tree.children[k].parent \in ExpectedParents(u)

\* C17: in a built tree the filter nodes are exactly the filter paths the
\* sidecar the build read defines or references from a file entry, together
\* with all their ancestor paths; each such path is exactly one node, under
\* the node of its parent path; a defined filter with no file and no
\* sub-filter is present as a node without children.
RECURSIVE Ancestors(_)
Ancestors(filterPath) ==
  IF filterPath = EmptyString THEN {}
  ELSE {filterPath} \cup Ancestors(ParentFilter(filterPath))

DefinedPaths(doc) ==
  { d.Include : d \in { x \in Range(AllDefs(Groups(doc))) : x.Include # EmptyString } }

ReferencedPaths(doc) == { LastFilter(it.Filter) : it \in Range(TreeItems(doc)) }

ExpectedFolders(doc) ==
  UNION { Ancestors(p) : p \in DefinedPaths(doc) \cup ReferencedPaths(doc) }

FolderNodesOf(t, filterPath) ==
  { k \in 1..Len(t.children) : t.children[k].folder /\ t.children[k].path = filterPath }

FilterNodesAsDefined(sc, t) ==
  IF ~sc.exists THEN TreeFolders(t) = {}
  ELSE /\ TreeFolders(t) = ExpectedFolders(sc.doc)
       /\ \A p \in ExpectedFolders(sc.doc) :
            /\ Cardinality(FolderNodesOf(t, p)) = 1
            /\ \A k \in FolderNodesOf(t, p) :
                 /\ t.children[k].parent = ParentFilter(p)
                 /\ HasNode(t.children, ParentFilter(p))
       /\ DefinedPaths(sc.doc) \subseteq TreeFolders(t)

C17_FilterNodesAreDefinedReferencedAndAncestors ==
  [][(~tree.populated /\ tree'.populated) => FilterNodesAsDefined(sidecar, tree')]_vars

\* DocDeep built: B, B\A and A are only ancestors, A\B is only referenced,
\* and the defined B\A\B is a node without children
C17_Witness ==
  /\ Built /\ sidecar.exists /\ sidecar.doc = DocDeep
  /\ FilterNodesAsDefined(sidecar, tree)
  /\ TreeFolders(tree) = { <<"B">>, <<"B", Sep, "A">>, <<"B", Sep, "A", Sep, "B">>,
                           <<"A">>, <<"A", Sep, "B">> }
  /\ ChildrenOf(tree.children, <<"B", Sep, "A", Sep, "B">>) = << >>
  /\ ChildrenOf(tree.children, <<"A", Sep, "B">>) # << >>

\* C18: every children sequence of the built tree, which is what getChildren
\* returns for a node, is sorted: all folder nodes precede all file nodes, and
\* within each of the two groups the nodes are in ascending order of label.
IsSortedChildren(children) ==
  \A i, j \in 1..Len(children) :
    i < j =>
      /\ children[i].folder \/ ~children[j].folder
      /\ children[i].folder = children[j].folder =>
           ~localeCompareBefore(children[j].label, children[i].label)

C18_ChildrenAreSorted ==
  tree.populated =>
    \A parent \in {EmptyString} \cup TreeFolders(tree) :
      IsSortedChildren(ChildrenOf(tree.children, parent))

\* DocDir built over the full disk: the root shows its two filters before its
\* four unfiltered files, although a.cpp collates before A and B
C18_Witness ==
  /\ Built /\ sidecar.exists /\ disk = WorkspaceFiles
  /\ LET root == ChildrenOf(tree.children, EmptyString)
     IN [k \in 1..Len(root) |-> root[k].label] =
          << <<"A">>, <<"B">>, <<"a", ".cpp">>, <<"h", ".h">>,
             <<"p", ".vcxproj", ".filters">>, <<"r", ".rc">> >>

\* C19 (as stated): when more eligible unfiltered files exist on disk than
\* maxFiles, the build includes exactly maxFiles unfiltered files under the
\* root, whatever other files there are.
EligibleFiltered == Eligible \cap FilteredFiles(sidecar.doc, OnDisk(sidecar, disk))
EligibleUnfiltered == Eligible \ EligibleFiltered

RootFiles == { k \in TreeFileNodes(tree) : tree.children[k].parent = EmptyString }

C19_ExactlyMaxFilesUnfiltered ==
  (Built /\ sidecar.exists /\ Cardinality(EligibleUnfiltered) > maxFiles) =>
    Cardinality(RootFiles) = maxFiles

\* C19 (amended): maxFiles bounds the files the scan enumerates, filtered ones
\* included.  With more eligible unfiltered files than maxFiles the build
\* completes and the root holds at most maxFiles unfiltered files, at least
\* maxFiles less the number of eligible filtered files, and so exactly maxFiles
\* when no eligible file is filtered.
C19_AtMostMaxFilesUnfiltered ==
  (Built /\ sidecar.exists /\ Cardinality(EligibleUnfiltered) > maxFiles) =>
    /\ tree.populated
    /\ Cardinality(RootFiles) <= maxFiles
    /\ Cardinality(RootFiles) + Cardinality(EligibleFiltered) >= maxFiles
    /\ \A k \in RootFiles : tree.children[k].path \in EligibleUnfiltered
    /\ EligibleFiltered = {} => Cardinality(RootFiles) = maxFiles

\* maxFiles = 2 and five eligible unfiltered files: exactly two under the root
C19_Witness ==
  /\ Built /\ sidecar.exists /\ maxFiles = 2
  /\ Cardinality(EligibleUnfiltered) = 5
  /\ Cardinality(RootFiles) = 2

\* C20 (as stated): any burst of change triggers, each less than the quiet
\* interval after the previous one, produces exactly one refresh, fired one
\* quiet interval after the last trigger; at most one refresh timer is pending
\* at any time, and the timer is idle again after it fires.
TimerIdle == ~refreshTimer /\ clock.handle = 0 /\ clock.timers = {}
TimerPending == refreshTimer /\ clock.handle # 0 /\ clock.timers = {clock.handle}

BurstOfTriggersRefreshedOnce ==
  burst.lastTrigger # NoTime =>
    /\ burst.refreshes <= 1
    /\ TimerPending => clock.handle = burst.lastTrigger + QuietInterval
    /\ clock.now > burst.lastTrigger + QuietInterval =>
         /\ burst.refreshes = 1
         /\ burst.refreshedAt = burst.lastTrigger + QuietInterval

BurstOfAcceptedRefreshedOnce ==
  /\ TimerPending =>
       /\ clock.handle = burst.lastAccepted + QuietInterval
       /\ burst.accRefreshes = 0
  /\ (TimerIdle /\ burst.lastAccepted # NoTime) =>
       /\ burst.accRefreshes = 1
       /\ burst.refreshedAt = burst.lastAccepted + QuietInterval

DragInFlight == dragData # NoDrag

C21_NoRefreshDuringDrag ==
  [][(DragInFlight /\ DragInFlight') => burst'.refreshedAt = burst.refreshedAt]_vars

\* C22 (as stated): every completed drop, whatever its target and payload, is
\* followed by exactly one refresh, performed immediately: the cache is
\* emptied by the drop itself and the drop schedules no further refresh.
DropStep == last'.op = "drop" /\ steps' = steps + 1

C22_EveryDropRefreshesOnce ==
  [][DropStep => (tree' = EmptyTree /\ refreshTimer' = refreshTimer)]_vars

\* C22 (amended): a drop with a payload on a folder node whose move raises no
\* error empties the cache itself, whatever the state of the debounce timer,
\* which it neither waits for nor cancels; when it wrote the sidecar, the
\* filters watcher arms the debounce timer, so a second refresh follows.  A
\* drop without payload or not on a folder node, and a drop whose move throws,
\* perform no refresh.
C22_DropOnFolderRefreshesAtOnce ==
  [][DropStep =>
       /\ (last'.onFolder /\ last'.outcome # "failed") =>
            /\ tree' = EmptyTree
            /\ refreshTimer' = (refreshTimer \/ last'.wrote)
       /\ (~last'.onFolder \/ last'.outcome = "failed") =>
            /\ tree' = tree
            /\ refreshTimer' = refreshTimer
       /\ ~isDragging']_vars

\* A file was dragged out of the built tree and dropped: the cache is empty
\* and the watcher's timer is pending
C22_Witness ==
  /\ last.op = "drop" /\ last.type = "file" /\ last.outcome = "ok" /\ last.wrote
  /\ tree = EmptyTree
  /\ refreshTimer
  /\ ~DragInFlight

\* C23: a filesystem change event (create, delete, rename or sidecar change)
\* whose path matches a configured exclusion pattern never schedules or
\* performs a refresh: it leaves the timer and the cache as they are.
C23_ExcludedEventsNeverRefresh ==
  [][\A kind \in EventKinds, path \in EventPaths :
       (fileEvent(kind, path) /\ Excluded(path)) =>
         (clock' = clock /\ refreshTimer' = refreshTimer /\ tree' = tree)]_vars

\* C24: every sidecar change, every create or delete of a path that the
\* enumeration of unfiltered files does not exclude, and every rename event is
\* eventually followed by a refresh, which empties the whole tree cache.
CoveredEvent(kind, path) ==
  \/ IsFiltersFile(path) /\ kind \in { "change", "create", "delete" }
  \/ kind \in { "create", "delete" } /\ ~Excluded(path)
  \/ kind = "rename"

C24_EveryChangeIsEventuallyRefreshed ==
  \A t \in 0..MaxTime :
    (last.op = "event" /\ CoveredEvent(last.type, last.src) /\ burst.lastEvent = t)
      ~> (burst.refreshedAt >= t /\ ~tree.populated)

\* C25: every successful createFilter and deleteFilter is eventually followed
\* by a refresh of the tree, whatever the state of the debounce timer and of
\* the drag flag when the operation completes: the cache that was built
\* before the operation does not stay.
CachePredatesLast == tree.populated /\ ~builtSince

C25_FilterCommandsAreEventuallyRefreshed ==
  (last.op \in { "createFilter", "deleteFilter" } /\ last.outcome = "ok")
    ~> ~CachePredatesLast

\* C26: createFilter, deleteFilter, moveFileToFilter, moveFilterToParent and
\* the rename and delete propagation never change the cached tree.  The cache
\* changes only through refresh, which empties it, and through getChildren,
\* which populates an unpopulated root; a createFilter or deleteFilter step
\* leaves it as it is, and a drop, rename or delete step at most refreshes it.
CommandStep(ops) == last'.op \in ops /\ steps' = steps + 1

C26_OperationsLeaveTheCache ==
  [][/\ tree' # tree => (tree' = EmptyTree \/ (~tree.populated /\ tree'.populated))
     /\ CommandStep({ "createFilter", "deleteFilter" }) => tree' = tree
     /\ CommandStep({ "drop", "renameFile", "deleteFile" }) => tree' \in { tree, EmptyTree }]_vars

\* A filter was created while the built tree was cached: the sidecar has the
\* new definition, the cached tree is the one built before
C26_Witness ==
  /\ last.op = "createFilter" /\ last.outcome = "ok" /\ last.wrote
  /\ sidecar # last.pre
  /\ tree.populated /\ tree.children # << >> /\ ~builtSince
  /\ tree = buildTree(last.pre, disk, OnDisk(last.pre, disk))
----------------------------------------------------------------------------
(* C27 *)

\* The workspace folders the operation of a step concerns: the folder of the
\* node it was called on and, for a drop, the folder of the node dropped on
ConcernedRoots(op) ==
  {getWorkspaceFolder(op.src)}
    \cup (IF op.op = "drop" /\ op.onFolder THEN {getWorkspaceFolder(op.arg)} ELSE {})

\* The uris of the nodes of the two cached trees
NodeUris(k) ==
  LET t == IF k = 1 THEN tree ELSE second.tree
  IN { UriIn(k, t.children[i].path) : i \in 1..Len(t.children) }

\* C27: with two workspace folders, an operation that concerns a folder leaves
\* the sidecar of the other folder unchanged, a build of a folder's tree
\* leaves the sidecar of the other folder unchanged, and the two cached
\* trees have no node in common.
C27_OperationsKeepToTheirRoot ==
  [][/\ steps' = steps + 1 =>
          \A k \in ConcernedRoots(last') : SidecarOf(3 - k)' = SidecarOf(3 - k)
     /\ (~tree.populated /\ tree'.populated) => second.sidecar' = second.sidecar
     /\ (~second.tree.populated /\ second.tree'.populated) => sidecar' = sidecar
     /\ NodeUris(1)' \cap NodeUris(2)' = {}]_vars

----------------------------------------------------------------------------
(* C28 *)

\* The step is a build of the root of the folder k that was reported
BuildReported(k) ==
  last' # last /\ last'.op = "build" /\ last'.src = UriIn(k, RootUri)

\* C28: when the build of a workspace folder's root fails (its sidecar is
\* malformed, or reading or writing it throws), getChildren reports the failure,
\* the root keeps no children and stays unpopulated, the tree and the sidecar
\* of the other folder are untouched, and what a build of a folder yields
\* is the tree of that folder's own sidecar and files, whether or not the
\* build of the other folder has failed.
C28_FailedBuildLeavesRootsAlone ==
  [][/\ \A k \in Roots :
          BuildReported(k) =>
            /\ last'.outcome = "failed"
            /\ TreeOf(k)' = TreeOf(k)
            /\ ~TreeOf(k)'.populated /\ TreeOf(k)'.children = << >>
            /\ TreeOf(3 - k)' = TreeOf(3 - k)
            /\ SidecarOf(3 - k)' = SidecarOf(3 - k)
     /\ \A k \in Roots :
          (~TreeOf(k).populated /\ TreeOf(k)'.populated) =>
            \E found \in FindFiles(OnDisk(SidecarOf(k), FilesOf(k)), maxFiles) :
              TreeOf(k)' = buildTree(SidecarOf(k), FilesOf(k), found)]_vars

\* The build of w1, whose sidecar is malformed, has failed and left its root
\* unpopulated, while the root of w2 is populated with the nodes of its sidecar
C28_Witness ==
  /\ last.op = "build" /\ last.outcome = "failed" /\ last.src = RootUri
  /\ sidecar = File(Malformed)
  /\ ~tree.populated
  /\ second.tree.populated /\ second.tree.children # << >>

----------------------------------------------------------------------------
(* C29 *)

\* The step is a createFilter, a deleteFilter or a drop that did not succeed
MutationFailed ==
  /\ steps' = steps + 1
  /\ last'.op \in { "createFilter", "deleteFilter", "drop" }
  /\ last'.outcome \in { "failed", "rejected" }

\* C29: a mutation operation that fails leaves the sidecar of every workspace
\* folder exactly as it was before the call, an absent sidecar included.
C29_FailedMutationLeavesSidecar ==
  [][MutationFailed => (sidecar' = sidecar /\ second.sidecar' = second.sidecar)]_vars

----------------------------------------------------------------------------
(* C30 *)

\* C30: the build of the root of a workspace folder that has no sidecar
\* reports no error, leaves the root populated with no children, whatever
\* files the folder holds, and writes neither a sidecar nor a file.
C30_BuildWithoutSidecarIsEmpty ==
  [][\A k \in Roots :
       ~SidecarOf(k).exists =>
         /\ ~BuildReported(k)
         /\ (~TreeOf(k).populated /\ TreeOf(k)'.populated) =>
              /\ TreeOf(k)'.children = << >>
              /\ sidecar' = sidecar /\ second.sidecar' = second.sidecar
              /\ disk' = disk
              /\ refreshTimer' = refreshTimer]_vars

\* The root of w1, which has files but no sidecar, has been built
C30_Witness ==
  /\ ~sidecar.exists
  /\ disk # {}
  /\ tree.populated /\ tree.children = << >>
  /\ last.op # "build"

----------------------------------------------------------------------------
(* C31 *)

\* The last operation renamed a file other than the sidecar, with a sidecar present
RenamePropagated ==
  /\ ~builtSince /\ last.op = "renameFile" /\ last.outcome = "ok"
  /\ last.src # SidecarUri /\ last.pre.exists

\* C31: the rename propagation gives every file entry whose Include is the
\* old root-relative path the new path and keeps its type and its filter
\* reference; when no entry has the old path it writes nothing and the
\* sidecar stays as it was.
C31_RenameUpdatesEveryMatchingEntry ==
  RenamePropagated =>
    LET before == AllItems(last.pre.doc)
        after == AllItems(sidecar.doc)
        oldPath == RelativePath(last.src)
        newPath == RelativePath(last.arg)
        matches == { k \in 1..Len(before) : before[k].Include = oldPath }
    IN /\ Len(after) = Len(before)
       /\ \A k \in matches :
            /\ after[k].Include = newPath
            /\ after[k].tag = before[k].tag
            /\ after[k].Filter = before[k].Filter
       /\ last.wrote <=> matches # {}
       /\ matches = {} => sidecar = last.pre

\* a.cpp, listed twice with different types, was renamed: both entries have
\* the new path
C31_Witness ==
  /\ RenamePropagated /\ last.pre = File(DocTwice) /\ last.src = FileA /\ last.wrote
  /\ Cardinality({ k \in 1..Len(AllItems(sidecar.doc)) :
                     AllItems(sidecar.doc)[k].Include = <<"b", ".cpp">> }) = 2

----------------------------------------------------------------------------
(* C32 *)

\* The last operation deleted a file other than the sidecar, with a sidecar present
DeletePropagated ==
  /\ ~builtSince /\ last.op = "deleteFile" /\ last.outcome = "ok"
  /\ last.src # SidecarUri /\ last.pre.exists

\* C32: the delete propagation removes every file entry whose Include is the
\* file's root-relative path, the whole entry and not only its filter
\* reference, keeps every other entry and every filter definition, and when
\* no entry has that path it writes nothing and the sidecar stays as it was.
C32_DeleteRemovesEveryMatchingEntry ==
  DeletePropagated =>
    LET before == AllItems(last.pre.doc)
        after == AllItems(sidecar.doc)
        path == RelativePath(last.src)
        matches == { k \in 1..Len(before) : before[k].Include = path }
    IN /\ \A k \in 1..Len(after) : after[k].Include # path
       /\ after = SelectSeq(before, LAMBDA it : it.Include # path)
       /\ AllDefs(sidecar.doc) = AllDefs(last.pre.doc)
       /\ last.wrote <=> matches # {}
       /\ matches = {} => sidecar = last.pre

\* a.cpp, listed twice, was deleted: no entry is left and the filter A is
\* still defined
C32_Witness ==
  /\ DeletePropagated /\ last.pre = File(DocTwice) /\ last.src = FileA /\ last.wrote
  /\ AllItems(sidecar.doc) = << >>
  /\ AllDefs(sidecar.doc) = << FilterDef(<<"A">>, "i1") >>

\* C33: between two refreshes the build of a root, and the write of its
\* cleanup, runs at most once, also when getChildren is called again for the
\* root while the first build is suspended.
C33_BuildRunsOncePerRefresh ==
  /\ builds.started <= 1
  /\ builds.wrote <= 1

\* C34: a file the tree shows directly under the root has no filter
\* association in the sidecar that the build of this tree read.
C34_AssociatedFileNotUnderRoot ==
  LET read == TreeItems(builds.lastRead.doc)
  IN \A k \in RootFiles : \A j \in 1..Len(read) :
       FileUri(read[j].Include) # tree.children[k].path

\* The last operation was a createFilter that wrote the sidecar
FilterCreated == last.op = "createFilter" /\ last.outcome = "ok"

\* C36: the filter a completed createFilter defined stays defined while
\* builds that began before it finish: no cleanup writes an older copy back.
C36_CleanupKeepsCompletedMutation ==
  FilterCreated =>
    ExistingFilter(AllDefs(sidecar.doc), NewFilterPath(getFilterPath(last.src), last.arg))

\* The tree in the cache was built and nothing was done since then
TreeIsFresh == builtSince /\ tree.populated

\* C38: a build that follows a build of the same root, with no change by
\* anyone else in between, returns the tree the first build returned: from
\* the sidecar the first build left and the files on disk, a build that
\* may find the same files yields the cached tree.
C38_SecondBuildReturnsSameTree ==
  TreeIsFresh =>
    \E found \in FindFiles(OnDisk(sidecar, disk), maxFiles) :
      buildTree(sidecar, disk, found).children = tree.children

\* No two filter definitions of the document have the same path
DistinctDefinitions(doc) ==
  LET defs == AllDefs(Groups(doc))
  IN \A i, j \in 1..Len(defs) : defs[i].Include = defs[j].Include => i = j

\* The last operation was a createFilter or the drop of a filter that succeeded
CreatedOrMovedFilter ==
  /\ last.outcome = "ok"
  /\ \/ last.op = "createFilter"
     \/ last.op = "drop" /\ last.type = "folder"

\* C37: a createFilter or an accepted moveFilterToParent on a sidecar whose
\* definition paths are pairwise distinct leaves them pairwise distinct.
C37_DefinitionPathsStayDistinct ==
  (CreatedOrMovedFilter /\ DistinctDefinitions(last.pre.doc)) => DistinctDefinitions(sidecar.doc)

\* Segments separated by '\', none of them empty and none of them '..'
WellFormedPath(path) ==
  /\ path # EmptyString
  /\ Head(path) # Sep
  /\ path[Len(path)] # Sep
  /\ \A i \in 1..Len(path) - 1 : ~(path[i] = Sep /\ path[i + 1] = Sep)
  /\ \A i \in 1..Len(path) : path[i] # ".."

\* The filter paths a document stores: its definitions and its references
StoredFilterPaths(doc) ==
  { AllDefs(doc)[i].Include : i \in 1..Len(AllDefs(doc)) }
    \cup UNION { Range(AllItems(doc)[i].Filter) : i \in 1..Len(AllItems(doc)) }

\* C39: every filter path stored in the sidecar of either workspace folder is
\* well-formed, also after drops from one root onto the other.
C39_StoredFilterPathsWellFormed ==
  \A k \in Roots : \A path \in StoredFilterPaths(SidecarOf(k).doc) : WellFormedPath(path)

\* The last operation was a paste that copied or moved the file
Pasted == last.op = "paste" /\ last.outcome = "ok"

\* C40: the name under which paste stores the file was unused before the
\* paste: nothing that existed in the destination directory is overwritten.
C40_PasteNeverOverwrites ==
  Pasted => ~StatSucceeds(last.arg, OnDisk(last.pre, last.disk))

\* The parents of the file nodes the cached tree has for a file ('' is the root)
RenderedUnder(fileUri) ==
  { tree.children[k].parent : k \in { n \in TreeFileNodes(tree) : tree.children[n].path = fileUri } }

\* C35 as stated: for every file of the workspace folder, getFileFilter returns
\* none exactly when the build of the same sidecar shows the file directly
\* under the root, and otherwise the filter under which the build shows it.
C35_NoneExactlyWhenUnderRoot ==
  (TreeIsFresh /\ sidecar.exists) =>
    \A f \in disk :
      LET g == getFileFilter(sidecar, f)
      IN /\ ~g.defined <=> EmptyString \in RenderedUnder(f)
         /\ g.defined => g.filter \in RenderedUnder(f)

\* C35: for every file of the workspace folder, when getFileFilter returns a
\* filter the build of the same sidecar shows the file under that filter's
\* node and not under the root; when it returns none the build shows the
\* file directly under the root, or nowhere when findFiles excludes the file.
C35_FilterOfFileMatchesBuild ==
  (TreeIsFresh /\ sidecar.exists) =>
    \A f \in disk :
      LET g == getFileFilter(sidecar, f)
      IN IF g.defined
           THEN g.filter \in RenderedUnder(f) /\ EmptyString \notin RenderedUnder(f)
           ELSE RenderedUnder(f) = IF Excluded(f) THEN {} ELSE {EmptyString}

\* A file was pasted next to a.cpp, whose entry has the filter references B
\* and A: getFileFilter gave A, and the build shows the new file under A
C35_Witness ==
  /\ TreeIsFresh /\ Pasted /\ last.type = "file"
  /\ \E k \in 1..Len(AllItems(last.pre.doc)) :
       AllItems(last.pre.doc)[k].Filter = << <<"B">>, <<"A">> >>
  /\ getFileFilter(sidecar, last.arg) = [defined |-> TRUE, filter |-> <<"A">>]
  /\ RenderedUnder(last.arg) = { <<"A">> }

====
